---- MODULE Spec2Model ----
(***************************************************************************)
(* A model of the product-refinement wizard's core:                        *)
(*   - SpecificationManager (utils/storage.py): the versioned artifact     *)
(*     store, with file names built and parsed character by character;     *)
(*   - AIService (ai/service.py): the response cache, the cached-call      *)
(*     wrapper, model binding with retry, and ask.                         *)
(* Strings whose characters matter (project names, file names, document    *)
(* bodies) are sequences of one-character strings.                         *)
(***************************************************************************)
EXTENDS Integers, Sequences, FiniteSets, TLC

VARIABLES
    fs,         \* the store: path <<projectSlug, docType, fileName>> -> file content
    hist,       \* per partition: save calls made, and whether it was disturbed
    lastOp,     \* the last store operation and what it returned or raised
    nSaves,     \* save_specification calls made so far (bounded)
    nFaults,    \* environment faults so far: deletions and failed writes (bounded)
    legacy,     \* the files of older layouts: legacy path -> file content
    procs,      \* the processes saving at the same time: each one's position and locals
    modelName,  \* AIService.config.MODEL_NAME
    llm,        \* AIService.llm: None, or the model it is bound to
    lastAsk,    \* the last ask call: what it did and what it returned
    nAsks,      \* ask calls made so far (bounded)
    cache,      \* the cache directory: key -> [data, mtime, ok]
    now,        \* time.time(), in seconds
    lastCall,   \* the last cached call or lookup and what it returned
    nCalls,     \* cached calls made so far (bounded)
    nTicks,     \* clock advances so far (bounded)
    nCacheFails, \* cache writes that failed so far (bounded)
    session,    \* the locals of a create_spec / edit_spec run in its refinement loop
    seen        \* what the user and the backend saw of that run

storeVars == <<fs, hist, lastOp, nSaves, nFaults, legacy, procs>>

askVars == <<modelName, llm, lastAsk, nAsks>>

cacheVars == <<cache, now, lastCall, nCalls, nTicks, nCacheFails>>

sessVars == <<session, seen>>

vars == <<fs, hist, lastOp, nSaves, nFaults, legacy, procs, modelName, llm, lastAsk, nAsks,
          cache, now, lastCall, nCalls, nTicks, nCacheFails, session, seen>>

(***************************************************************************)
(* Bounds of the model.                                                    *)
(***************************************************************************)
MaxSaves == 3
MaxFaults == 1
MaxLoadSaves == 2
MaxAsks == 2
MaxCalls == 2
MaxTicks == 1
MaxRounds == 2
\* How far the wall clock is set back when it is: more than a run of saves lasts.
ClockSetBack == 10
MaxLegacy == 2
MaxRuns == 2

(***************************************************************************)
(* Python string operations on character sequences.                        *)
(***************************************************************************)
Digits == <<"0", "1", "2", "3", "4", "5", "6", "7", "8", "9">>

IsDigit(c) == \E d \in 1..10 : Digits[d] = c

DigitVal(c) == (CHOOSE d \in 1..10 : Digits[d] = c) - 1

\* str.lower() on one character (the upper-case letters the inputs use).
Lower(c) ==
    CASE c = "A" -> "a"
      [] c = "V" -> "v"
      [] OTHER -> c

\* s[i:i+len(sep)] == sep
OccursAt(s, sep, i) ==
    /\ i + Len(sep) - 1 <= Len(s)
    /\ \A j \in 1..Len(sep) : s[i + j - 1] = sep[j]

\* str.find(sep, i), 1-based; 0 when absent.
RECURSIVE Find(_, _, _)
Find(s, sep, i) ==
    IF i + Len(sep) - 1 > Len(s) THEN 0
    ELSE IF OccursAt(s, sep, i) THEN i
    ELSE Find(s, sep, i + 1)

\* sep in s
Contains(s, sep) == Find(s, sep, 1) # 0

\* s.endswith(suf)
EndsWith(s, suf) ==
    /\ Len(suf) <= Len(s)
    /\ SubSeq(s, Len(s) - Len(suf) + 1, Len(s)) = suf

\* s.split(sep) for a non-empty separator: the list of pieces.
RECURSIVE Split(_, _)
Split(s, sep) ==
    LET i == Find(s, sep, 1)
    IN  IF i = 0 THEN <<s>>
        ELSE <<SubSeq(s, 1, i - 1)>> \o Split(SubSeq(s, i + Len(sep), Len(s)), sep)

\* str(n) for an integer n.
RECURSIVE NatToStr(_)
NatToStr(n) ==
    IF n < 10 THEN <<Digits[n + 1]>>
    ELSE NatToStr(n \div 10) \o <<Digits[(n % 10) + 1]>>

IntToStr(n) == IF n < 0 THEN <<"-">> \o NatToStr(0 - n) ELSE NatToStr(n)

\* The digits of a Python integer literal: digits, single underscores between them.
DigitGroupOk(s) ==
    /\ Len(s) > 0
    /\ IsDigit(s[1])
    /\ IsDigit(s[Len(s)])
    /\ \A i \in 1..Len(s) : IsDigit(s[i]) \/ s[i] = "_"
    /\ \A i \in 1..(Len(s) - 1) : ~(s[i] = "_" /\ s[i + 1] = "_")

RECURSIVE DigitsValue(_)
DigitsValue(s) ==
    IF Len(s) = 0 THEN 0
    ELSE IF s[Len(s)] = "_" THEN DigitsValue(SubSeq(s, 1, Len(s) - 1))
    ELSE 10 * DigitsValue(SubSeq(s, 1, Len(s) - 1)) + DigitVal(s[Len(s)])

\* int(s): [ok, val]; ok = FALSE stands for the ValueError int() raises.
PyInt(s) ==
    LET signed == Len(s) > 0 /\ s[1] \in {"-", "+"}
        body == IF signed THEN SubSeq(s, 2, Len(s)) ELSE s
    IN  IF DigitGroupOk(body)
        THEN [ok |-> TRUE,
              val |-> IF signed /\ s[1] = "-" THEN 0 - DigitsValue(body)
                      ELSE DigitsValue(body)]
        ELSE [ok |-> FALSE, val |-> 0]

SetMax(S) == CHOOSE x \in S : \A y \in S : y <= x

(***************************************************************************)
(* json.dump / json.load of a string: the quote and the backslash are      *)
(* escaped with a backslash on the way out and unescaped on the way in.    *)
(***************************************************************************)
RECURSIVE JsonDumpStr(_)
JsonDumpStr(s) ==
    IF Len(s) = 0 THEN <<>>
    ELSE (IF s[1] \in {"\"", "\\"} THEN <<"\\", s[1]>> ELSE <<s[1]>>)
         \o JsonDumpStr(Tail(s))

RECURSIVE JsonLoadStr(_)
JsonLoadStr(e) ==
    IF Len(e) = 0 THEN <<>>
    ELSE IF e[1] = "\\" /\ Len(e) >= 2
         THEN <<e[2]>> \o JsonLoadStr(SubSeq(e, 3, Len(e)))
         ELSE <<e[1]>> \o JsonLoadStr(Tail(e))

(***************************************************************************)
(* Inputs.                                                                 *)
(***************************************************************************)
\* Project names as the user types them.
ProjectNames ==
    { <<"A", " ", "c">>,            \* "A c"    -> slug a_c
      <<"a", " ", "V", "2">>,       \* "a V2"   -> slug a_v2
      <<"m", " ", "v", "i">> }      \* "m vi"   -> slug m_vi

\* Document bodies.
Contents == { <<"x">>, <<"\"", "\\">> }

\* Config.DOCUMENT_TYPE, the default document type.
DOCUMENT_TYPE == "product_requirements"

None == "None"

\* The doc_type argument of save_specification: None when omitted.
DocTypeArgs == {None, "engineering_todo"}

\* What the write of the new file can do.
IoOutcomes == {"ok", "open_fail", "write_fail"}

(***************************************************************************)
(* SpecificationManager                                                    *)
(***************************************************************************)
\* project_name.lower().replace(' ', '_')
Slug(name) ==
    [i \in 1..Len(name) |-> IF Lower(name[i]) = " " THEN "_" ELSE Lower(name[i])]

\* The names of the files in a (project, docType) directory: os.listdir.
ListDir(store, slug, dt) ==
    {p[3] : p \in {q \in DOMAIN store : q[1] = slug /\ q[2] = dt}}

\* int(f.split('_v')[1].split('.')[0])
FileVersion(f) == PyInt(Split(Split(f, <<"_", "v">>)[2], <<".">>)[1])

\* _get_spec_path: [ok, version, path]; ok = FALSE is the ValueError of int().
GetSpecPath(store, project_name, doc_type) ==
    LET dt == IF doc_type = None THEN DOCUMENT_TYPE ELSE doc_type
        slug == Slug(project_name)
        existing_files ==
            {f \in ListDir(store, slug, dt) :
                /\ EndsWith(f, <<".", "j", "s", "o", "n">>)
                /\ ~EndsWith(f, <<"_", "t", "o", "d", "o", ".", "j", "s", "o", "n">>)}
        versioned == {f \in existing_files : Contains(f, <<"_", "v">>)}
        raises == \E f \in versioned : ~FileVersion(f).ok
        versions == {FileVersion(f).val : f \in versioned}
        version == IF versions = {} THEN 1 ELSE SetMax(versions) + 1
        filename == slug \o <<"_", "v">> \o IntToStr(version)
                         \o <<".", "j", "s", "o", "n">>
    IN  IF raises
        THEN [ok |-> FALSE, version |-> 0, path |-> <<slug, dt, <<>>>>]
        ELSE [ok |-> TRUE, version |-> version, path |-> <<slug, dt, filename>>]

\* datetime.now().timestamp() as save_specification reads it while the wall
\* clock runs forward: later at each save.
Timestamp == nSaves + 1

\* A save that records the configured default instead of the doc_type it was given.
SpecDict_DefaultDocType(spec_path, project_name, specification, dt, timestamp) ==
    LET pieces == Split(spec_path[3], <<"_", "v">>)
    IN  [kind |-> "json",
         version |-> PyInt(Split(pieces[Len(pieces)], <<".">>)[1]).val,
         timestamp |-> timestamp,
         product_name |-> JsonDumpStr(project_name),
         specification |-> JsonDumpStr(specification),
         doc_type |-> DOCUMENT_TYPE]

\* The record save_specification dumps.
SpecDict(spec_path, project_name, specification, dt, timestamp) ==
    LET pieces == Split(spec_path[3], <<"_", "v">>)
    IN  [kind |-> "json",
         version |-> PyInt(Split(pieces[Len(pieces)], <<".">>)[1]).val,
         timestamp |-> timestamp,
         product_name |-> JsonDumpStr(project_name),
         specification |-> JsonDumpStr(specification),
         doc_type |-> dt]

\* A file whose write stopped part-way: not parseable JSON.
CorruptFile == [kind |-> "corrupt"]

\* A file that cannot be opened for reading (open raises PermissionError).
UnreadableFile == [kind |-> "unreadable"]

\* A file holding valid JSON that is not an object, such as [].
NonRecordFile == [kind |-> "nonrecord"]

Write(store, path, data) == (path :> data) @@ store

Partition(path) == <<path[1], path[2]>>

Partitions == {<<Slug(n), t>> : n \in ProjectNames, t \in {DOCUMENT_TYPE, "engineering_todo"}}

\* What a store operation reports: its outcome and, for the checks, its inputs
\* and what was true of its partition before it (deleted: a file of the
\* partition was deleted; iofail: a write into the partition failed; top: the
\* greatest version a save to the partition was assigned). follows
\* marks a load of the path that the save just before it returned.
OpRecord(op, status, part, k, arg, content, version, path, data) ==
    [op |-> op, status |-> status, part |-> part, k |-> k,
     deleted |-> IF part \in DOMAIN hist THEN hist[part].deleted ELSE FALSE,
     iofail |-> IF part \in DOMAIN hist THEN hist[part].iofail ELSE FALSE,
     top |-> IF part \in DOMAIN hist THEN hist[part].top ELSE 0,
     arg |-> arg, content |-> content, version |-> version, path |-> path,
     data |-> data, follows |-> FALSE]

\* save_specification(project_name, specification, doc_type) once _get_spec_path
\* has answered sp, with the outcome of the file write drawn by the environment.
SaveSpecification(project_name, specification, doc_type, io, sp, timestamp) ==
    LET dt == IF doc_type = None THEN DOCUMENT_TYPE ELSE doc_type
        part == <<Slug(project_name), dt>>
        k == hist[part].calls + 1
    IN  /\ nSaves < MaxSaves
        /\ io # "ok" => sp.ok /\ nFaults < MaxFaults
        /\ UNCHANGED <<legacy, procs>>
        /\ nSaves' = nSaves + 1
        /\ nFaults' = IF io = "ok" THEN nFaults ELSE nFaults + 1
        /\ IF ~sp.ok
           THEN \* the ValueError of _get_spec_path leaves save_specification
                /\ fs' = fs
                /\ hist' = [hist EXCEPT ![part].calls = k]
                /\ lastOp' = OpRecord("save", "ValueError", part, k, doc_type,
                                      specification, 0, sp.path, <<>>)
           ELSE /\ fs' = CASE io = "ok" ->
                               Write(fs, sp.path,
                                     SpecDict(sp.path, project_name, specification, dt,
                                              timestamp))
                            [] io = "write_fail" -> Write(fs, sp.path, CorruptFile)
                            [] OTHER -> fs
                /\ hist' = [hist EXCEPT ![part].calls = k,
                                        ![part].iofail = @ \/ io # "ok",
                                        ![part].top =
                                            IF io = "ok" /\ sp.version > @
                                            THEN sp.version ELSE @]
                /\ lastOp' = OpRecord("save", IF io = "ok" THEN "ok" ELSE "IOError",
                                      part, k, doc_type, specification, sp.version,
                                      sp.path, <<>>)

\* A file of the store removed from outside (deletion does not renumber).
DeleteFile(path) ==
    /\ nFaults < MaxFaults
    /\ path \in DOMAIN fs
    /\ nFaults' = nFaults + 1
    /\ fs' = [p \in DOMAIN fs \ {path} |-> fs[p]]
    /\ hist' = [hist EXCEPT ![Partition(path)].deleted = TRUE]
    /\ lastOp' = OpRecord("delete", "ok", Partition(path), 0, None, <<>>, 0, path, <<>>)
    /\ UNCHANGED <<nSaves, legacy, procs>>

\* The root of the store, Config.SPECS_DIR (an absolute directory).
SPECS_DIR == <<"/", "r">>

\* os.path.isabs(spec_path): the first component starts at the file system root.
IsAbs(spec_path) ==
    Len(spec_path) > 0 /\ Len(spec_path[1]) > 0 /\ spec_path[1][1] = "/"

\* What open and json.load do on a file: "ok" or the exception raised.
ReadSpecFile(f) ==
    CASE f.kind = "json" -> "ok"
      [] f.kind = "corrupt" -> "JSONDecodeError"
      [] f.kind = "unreadable" -> "PermissionError"
      [] OTHER -> "ok_nonrecord"

\* A load_specification that answers None for a file it cannot parse.
LoadSpecification_CorruptAsNone(store, spec_path) ==
    LET full_path == IF ~IsAbs(spec_path) THEN <<SPECS_DIR>> \o spec_path
                     ELSE spec_path
        key == Tail(full_path)
    IN  IF key \notin DOMAIN store \/ store[key].kind # "json"
        THEN [status |-> "None", data |-> <<>>]
        ELSE [status |-> "ok",
              data |-> [version |-> store[key].version,
                        timestamp |-> store[key].timestamp,
                        product_name |-> JsonLoadStr(store[key].product_name),
                        specification |-> JsonLoadStr(store[key].specification),
                        doc_type |-> IF store[key].doc_type = None
                                     THEN full_path[Len(full_path) - 1]
                                     ELSE store[key].doc_type]]

\* load_specification(spec_path): [status, data]. status "None" is the None
\* returned for a missing file, "IOError" the error raised for corrupt JSON;
\* any other exception is raised again as it is (the item assignment on JSON
\* that is not an object raises TypeError).
LoadSpecification(store, spec_path) ==
    LET full_path == IF ~IsAbs(spec_path) THEN <<SPECS_DIR>> \o spec_path
                     ELSE spec_path
        key == Tail(full_path)
    IN  IF key \notin DOMAIN store THEN [status |-> "None", data |-> <<>>]
        ELSE CASE ReadSpecFile(store[key]) = "JSONDecodeError" ->
                      [status |-> "IOError", data |-> <<>>]
               [] ReadSpecFile(store[key]) = "PermissionError" ->
                      [status |-> "PermissionError", data |-> <<>>]
               [] ReadSpecFile(store[key]) = "ok_nonrecord" ->
                      [status |-> "TypeError", data |-> <<>>]
               [] OTHER ->
                      [status |-> "ok",
                       data |-> [version |-> store[key].version,
                                 timestamp |-> store[key].timestamp,
                                 product_name |-> JsonLoadStr(store[key].product_name),
                                 specification |-> JsonLoadStr(store[key].specification),
                                 doc_type |-> IF store[key].doc_type = None
                                              THEN full_path[Len(full_path) - 1]
                                              ELSE store[key].doc_type]]

\* One load_specification call; the store is left as it is.
LoadFile(spec_path) ==
    LET r == LoadSpecification(fs, spec_path)
        key == IF IsAbs(spec_path) THEN Tail(spec_path) ELSE spec_path
    IN  /\ lastOp.op # "load"
        /\ lastOp' = [OpRecord("load", r.status, Partition(key), 0, None, <<>>, 0,
                               key, r.data)
                        EXCEPT !.follows = /\ lastOp.op = "save"
                                           /\ lastOp.status = "ok"
                                           /\ lastOp.path = key]
        /\ UNCHANGED <<fs, hist, nSaves, nFaults, legacy, procs>>

\* A file of the store damaged from outside: truncated, made unreadable, or
\* overwritten with JSON that is not an object.
DamageFile(path, data) ==
    /\ nFaults < MaxFaults
    /\ path \in DOMAIN fs
    /\ fs[path] # data
    /\ nFaults' = nFaults + 1
    /\ fs' = Write(fs, path, data)
    /\ lastOp' = OpRecord("damage", "ok", Partition(path), 0, None, <<>>, 0, path, <<>>)
    /\ UNCHANGED <<hist, nSaves, legacy, procs>>

\* A directory name list_specifications skips: it starts with '.' or '__'
\* (no document type does).
IsSystemDir(d) ==
    \/ Len(d) > 0 /\ d[1] = "."
    \/ Len(d) > 1 /\ d[1] = "_" /\ d[2] = "_"

\* The files list_specifications opens: project_name = <<>> and doc_type = None
\* are the filters left out.
Selected(store, project_name, doc_type) ==
    {p \in DOMAIN store :
        /\ ~IsSystemDir(p[1])
        /\ project_name # <<>> => p[1] = Slug(project_name)
        /\ doc_type # None => p[2] = doc_type
        /\ EndsWith(p[3], <<".", "j", "s", "o", "n">>)
        /\ ~(/\ EndsWith(p[3], <<"_", "t", "o", "d", "o", ".", "j", "s", "o", "n">>)
             /\ p[2] # "engineering_todo")}

\* A listing in which no exception is caught per file.
CaughtPerFile_None(exc) == FALSE

\* except (json.JSONDecodeError, KeyError) around the read of one file.
CaughtPerFile(exc) == exc \in {"JSONDecodeError", "KeyError"}

\* What the body of the per-file try does with file p: "ok" (an entry is
\* appended) or the exception raised; .get on JSON that is not an object
\* raises AttributeError.
ReadEntry(store, p) ==
    IF ReadSpecFile(store[p]) = "ok_nonrecord" THEN "AttributeError"
    ELSE ReadSpecFile(store[p])

\* The entry appended for file p.
ListEntry(store, p) ==
    [filename |-> p[3],
     path |-> p,
     version |-> store[p].version,
     timestamp |-> store[p].timestamp,
     product_name |-> JsonLoadStr(store[p].product_name),
     doc_type |-> p[2]]

\* spec_files.sort(key = timestamp)
RECURSIVE SortByTimestamp(_)
SortByTimestamp(S) ==
    IF S = {} THEN <<>>
    ELSE LET e == CHOOSE x \in S : \A y \in S : x.timestamp <= y.timestamp
         IN  <<e>> \o SortByTimestamp(S \ {e})

\* list_specifications(project_name, doc_type): status "raised" is the
\* exception logged and raised again by the outer handler; otherwise result is
\* the dictionary project -> docType -> entries, or, when flat, list is the
\* entry list of the one project found for the docType asked for. warned: the
\* files skipped with a warning.
ListSpecifications(store, project_name, doc_type) ==
    LET files == Selected(store, project_name, doc_type)
        good == {p \in files : ReadEntry(store, p) = "ok"}
        raised == \E p \in files \ good : ~CaughtPerFile(ReadEntry(store, p))
        projects == {p[1] : p \in good}
        result == [d \in projects |->
                    [t \in {p[2] : p \in {q \in good : q[1] = d}} |->
                      SortByTimestamp({ListEntry(store, p) :
                                         p \in {q \in good : q[1] = d /\ q[2] = t}})]]
        flat == doc_type # None /\ Cardinality(projects) = 1
    IN  IF raised
        THEN [status |-> "raised", flat |-> FALSE, result |-> <<>>, list |-> <<>>,
              warned |-> {}]
        ELSE [status |-> "ok", flat |-> flat,
              result |-> IF flat THEN <<>> ELSE result,
              list |-> IF flat THEN result[CHOOSE d \in projects : TRUE][doc_type]
                       ELSE <<>>,
              warned |-> files \ good]

\* The paths of the entries a listing returned.
Listed(r) ==
    IF r.flat THEN {r.list[i].path : i \in DOMAIN r.list}
    ELSE UNION {UNION {{r.result[d][t][i].path : i \in DOMAIN r.result[d][t]} :
                         t \in DOMAIN r.result[d]} : d \in DOMAIN r.result}

\* One list_specifications call; the store is left as it is.
ListFiles(project_name, doc_type) ==
    /\ lastOp.op # "list"
    /\ lastOp' = OpRecord("list", ListSpecifications(fs, project_name, doc_type).status,
                          <<>>, 0,
                          [project_name |-> project_name, doc_type |-> doc_type],
                          <<>>, 0, <<>>,
                          ListSpecifications(fs, project_name, doc_type))
    /\ UNCHANGED <<fs, hist, nSaves, nFaults, legacy, procs>>

(***************************************************************************)
(* SpecificationManager.__init__: the migration of legacy files.           *)
(* A legacy file lies directly in the store root ("flat") or under         *)
(* <doc type>/<project>/ ("typed"); the canonical layout is                *)
(* <project>/<doc type>/. The two path shapes do not meet: no project in   *)
(* the model is named like a document type.                                *)
(***************************************************************************)
LegacyPath(layout, doc_type, project_dirname, filename) ==
    [layout |-> layout, doc_type |-> doc_type, project |-> project_dirname,
     file |-> filename]

\* The legacy files an older version of the program may have left.
LegacyPaths ==
    {LegacyPath("flat", None, <<>>, <<"a", "_", "c", "_", "v", "1", ".", "j", "s", "o", "n">>),
     LegacyPath("flat", None, <<>>,
                <<"a", "_", "c", "_", "v", "1", "_", "t", "o", "d", "o", ".", "j", "s", "o", "n">>),
     LegacyPath("typed", DOCUMENT_TYPE, <<"a", "_", "c">>,
                <<"a", "_", "c", "_", "v", "1", ".", "j", "s", "o", "n">>)}

\* What a legacy file holds: a record without doc_type, a record without
\* product_name (the empty field), or a file that does not parse.
LegacyContents ==
    {[kind |-> "json", version |-> 1, timestamp |-> 1,
      product_name |-> JsonDumpStr(<<"A", " ", "c">>),
      specification |-> JsonDumpStr(<<"x">>), doc_type |-> None],
     [kind |-> "json", version |-> 1, timestamp |-> 1,
      product_name |-> <<>>,
      specification |-> JsonDumpStr(<<"y">>), doc_type |-> "engineering_todo"],
     CorruptFile}

\* project_dirname.replace('_', ' ')
Unslug(dirname) == [i \in 1..Len(dirname) |-> IF dirname[i] = "_" THEN " " ELSE dirname[i]]

\* The document type of a legacy file: the directory of the old layout, or
\* inferred from the file name, or from the content.
LegacyDocType(lp, spec_data) ==
    IF lp.layout = "typed" THEN lp.doc_type
    ELSE IF Contains(lp.file, <<"_", "t", "o", "d", "o">>) THEN "engineering_todo"
    ELSE IF spec_data.doc_type = None THEN "product_requirements"
    ELSE spec_data.doc_type

\* spec_data.get('product_name', 'unknown'), replaced by the directory name
\* of the old layout when it is 'unknown'.
LegacyProjectName(lp, spec_data) ==
    LET project_name == IF spec_data.product_name = <<>>
                        THEN <<"u", "n", "k", "n", "o", "w", "n">>
                        ELSE JsonLoadStr(spec_data.product_name)
    IN  IF lp.layout = "typed" /\ project_name = <<"u", "n", "k", "n", "o", "w", "n">>
        THEN Unslug(lp.project)
        ELSE project_name

\* new_file_path, relative to the store root.
NewFilePath(lp, spec_data) ==
    <<Slug(LegacyProjectName(lp, spec_data)), LegacyDocType(lp, spec_data), lp.file>>

\* file_path != new_file_path: a legacy path is never its canonical path.
IsOtherPath(lp, new_file_path) == TRUE

\* The body of the loop over legacy_files for one file, on the state
\* [fs, legacy, writes, rewrites] of the run: writes counts the files
\* written, rewrites those of them that existed before the write. io is what
\* the write does; every exception is caught and logged.
MigrateOne_Moves(st, lp, io) ==
    LET spec_data == st.legacy[lp]
    IN  IF ReadSpecFile(spec_data) # "ok" THEN st
        ELSE LET new_file_path == NewFilePath(lp, spec_data)
                 migrated == [spec_data EXCEPT !.doc_type = LegacyDocType(lp, spec_data)]
             IN  [st EXCEPT !.fs = Write(@, new_file_path, migrated),
                            !.legacy = [p \in DOMAIN @ \ {lp} |-> @[p]],
                            !.writes = @ + 1]

MigrateOne(st, lp, io) ==
    LET spec_data == st.legacy[lp]
    IN  IF ReadSpecFile(spec_data) # "ok" THEN st
        ELSE LET new_file_path == NewFilePath(lp, spec_data)
                 migrated == [spec_data EXCEPT !.doc_type = LegacyDocType(lp, spec_data)]
             IN  IF new_file_path \notin DOMAIN st.fs
                    \/ IsOtherPath(lp, new_file_path)
                 THEN CASE io = "ok" ->
                             [st EXCEPT !.fs = Write(@, new_file_path, migrated),
                                        !.writes = @ + 1,
                                        !.rewrites = IF new_file_path \in DOMAIN st.fs
                                                     THEN @ + 1 ELSE @]
                        [] io = "write_fail" ->
                             [st EXCEPT !.fs = Write(@, new_file_path, CorruptFile)]
                        [] OTHER -> st
                 ELSE st

\* The loop over legacy_files, in the order os.listdir gave them; the write
\* of the files in failing fails as io says.
RECURSIVE MigrateLoop(_, _, _, _)
MigrateLoop(st, legacy_files, failing, io) ==
    IF legacy_files = <<>> THEN st
    ELSE MigrateLoop(MigrateOne(st, Head(legacy_files),
                                IF Head(legacy_files) \in failing THEN io ELSE "ok"),
                     Tail(legacy_files), failing, io)

\* The orders os.listdir can give the files in.
ListingOrders(files) ==
    {o \in [1..Cardinality(files) -> files] :
        \A i, j \in 1..Cardinality(files) : i # j => o[i] # o[j]}

\* What a run of _handle_legacy_specifications leaves; run numbers the runs
\* that follow each other with no other store operation between them.
MigrationDone(st, run, failing) ==
    /\ fs' = st.fs
    /\ legacy' = st.legacy
    /\ lastOp' = OpRecord("migrate", "ok", <<>>, st.writes, None, <<>>, run, <<>>,
                          [rewrites |-> st.rewrites,
                           failed |-> failing,
                           before |-> legacy])
    /\ nFaults' = IF failing = {} THEN nFaults ELSE nFaults + 1
    /\ UNCHANGED <<hist, nSaves, procs>>

\* One construction of a SpecificationManager.
HandleLegacySpecifications(legacy_files, failing, io) ==
    LET run == IF lastOp.op = "migrate" THEN lastOp.version + 1 ELSE 1
    IN  /\ run <= MaxRuns
        /\ failing # {} => nFaults < MaxFaults
        /\ MigrationDone(MigrateLoop([fs |-> fs, legacy |-> legacy, writes |-> 0,
                                      rewrites |-> 0],
                                     legacy_files, failing, io),
                         run, failing)

\* An older version of the program leaves a file in its layout.
LeaveLegacyFile(lp, data) ==
    /\ Cardinality(DOMAIN legacy) < MaxLegacy
    /\ lp \notin DOMAIN legacy
    /\ legacy' = (lp :> data) @@ legacy
    /\ lastOp' = OpRecord("legacy", "ok", <<>>, 0, None, <<>>, 0, <<>>, <<>>)
    /\ UNCHANGED <<fs, hist, nSaves, nFaults, procs>>

(***************************************************************************)
(* save_specification run by several processes on one store: each process  *)
(* first lists the directory and computes its path (_get_spec_path), then   *)
(* opens the path for writing; steps of other processes come in between.   *)
(***************************************************************************)
Procs == {"p1", "p2"}

\* A process that is not inside save_specification.
IdleProc ==
    [pc |-> "idle", project_name |-> <<>>, doc_type |-> None, specification |-> <<>>,
     sp |-> [ok |-> FALSE, version |-> 0, path |-> <<>>], listing |-> {}, wrote |-> 0]

\* A write that leaves a file that is already there.
OpenForWrite_KeepsExisting(store, path, data) ==
    IF path \in DOMAIN store THEN store ELSE Write(store, path, data)

\* open(spec_path, 'w') and json.dump: the file is created, or replaced.
OpenForWrite(store, path, data) == Write(store, path, data)

\* spec_path = self._get_spec_path(project_name, doc_type) in process p; a
\* ValueError of _get_spec_path leaves save_specification.
GetSpecPathStep(p, project_name, specification, doc_type) ==
    LET dt == IF doc_type = None THEN DOCUMENT_TYPE ELSE doc_type
        sp == GetSpecPath(fs, project_name, doc_type)
    IN  /\ procs[p].pc # "scanned"
        /\ nSaves < MaxSaves
        /\ nSaves' = nSaves + 1
        /\ procs' = [procs EXCEPT ![p] =
                        [pc |-> IF sp.ok THEN "scanned" ELSE "idle",
                         project_name |-> project_name, doc_type |-> dt,
                         specification |-> specification, sp |-> sp,
                         listing |-> ListDir(fs, Slug(project_name), dt),
                         wrote |-> 0]]
        /\ UNCHANGED <<fs, hist, lastOp, nFaults, legacy>>

\* The rest of save_specification in process p: the record is built and
\* dumped to the path computed before. wrote numbers the writes of the
\* partition.
WriteSpecStep(p) ==
    LET my == procs[p]
        part == <<Slug(my.project_name), my.doc_type>>
        k == hist[part].calls + 1
    IN  /\ my.pc = "scanned"
        /\ fs' = OpenForWrite(fs, my.sp.path,
                              SpecDict(my.sp.path, my.project_name, my.specification,
                                       my.doc_type, Timestamp))
        /\ hist' = [hist EXCEPT ![part].calls = k,
                                ![part].top = IF my.sp.version > @ THEN my.sp.version
                                              ELSE @]
        /\ procs' = [procs EXCEPT ![p].pc = "done", ![p].wrote = k]
        /\ lastOp' = OpRecord("save", "ok", part, k, my.doc_type, my.specification,
                              my.sp.version, my.sp.path, <<>>)
        /\ UNCHANGED <<nSaves, nFaults, legacy>>

\* str.upper() on one character (the letters the inputs use).
Upper(c) ==
    CASE c = "a" -> "A"
      [] c = "c" -> "C"
      [] c = "i" -> "I"
      [] c = "m" -> "M"
      [] c = "v" -> "V"
      [] OTHER -> c

\* str.title(): a letter is upper-cased after a character that is not a
\* letter and lower-cased after a letter.
Title(s) ==
    [i \in 1..Len(s) |->
        IF i > 1 /\ Upper(s[i - 1]) # Lower(s[i - 1]) THEN Lower(s[i]) ELSE Upper(s[i])]

\* os.path.splitext(name)[0]: the name up to its last dot, a dot that only
\* dots precede not counting.
SplitextRoot(name) ==
    LET dots == {i \in 1..Len(name) : name[i] = "."}
        last == SetMax(dots)
    IN  IF dots = {} \/ \A j \in 1..(last - 1) : name[j] = "."
        THEN name
        ELSE SubSeq(name, 1, last - 1)

\* A task list named as the specification it was generated from.
TodoFilename_SpecName(spec_filename) == spec_filename

\* todo_filename = f"{spec_basename}_todo.json"
TodoFilename(spec_filename) ==
    SplitextRoot(spec_filename) \o <<"_", "t", "o", "d", "o", ".", "j", "s", "o", "n">>

\* The task lists generate_todo_list can return with tasks in them.
TodoLists == { <<"t1">>, <<"t1", "t2">> }

\* The record generate_todo dumps: the tasks and the metadata added to them.
TodoDict(tasks, selected_project_dir, spec_path, timestamp) ==
    [kind |-> "todo",
     tasks |-> tasks,
     project_name |-> Title([i \in 1..Len(selected_project_dir) |->
                                IF selected_project_dir[i] = "_" THEN " "
                                ELSE selected_project_dir[i]]),
     doc_type |-> "engineering_todo",
     generated_from |-> <<SPECS_DIR>> \o spec_path,
     timestamp |-> timestamp]

\* generate_todo once the specification at spec_path was loaded, the task
\* list was generated and the user chose to save it: the project directory is
\* taken from the product_name stored in the specification, and the write is
\* an open(todo_path, 'w') whose failure is caught and printed. nSaves counts
\* the writes to the store.
SaveTodoList(spec_path, tasks, io, timestamp) ==
    LET selected_project_dir == Slug(JsonLoadStr(fs[spec_path].product_name))
        todo_path == <<selected_project_dir, "engineering_todo",
                       TodoFilename(spec_path[3])>>
        part == Partition(todo_path)
    IN  /\ nSaves < MaxSaves
        /\ io # "ok" => nFaults < MaxFaults
        /\ spec_path \in DOMAIN fs
        /\ fs[spec_path].kind = "json"
        /\ nSaves' = nSaves + 1
        /\ nFaults' = IF io = "ok" THEN nFaults ELSE nFaults + 1
        /\ fs' = IF io = "ok"
                 THEN OpenForWrite(fs, todo_path,
                                   TodoDict(tasks, selected_project_dir, spec_path,
                                            timestamp))
                 ELSE fs
        /\ lastOp' = OpRecord("todo", IF io = "ok" THEN "ok" ELSE "IOError", part, 0,
                              spec_path, tasks, 0, todo_path, <<>>)
        /\ UNCHANGED <<hist, legacy, procs>>

StoreInit ==
    /\ fs = <<>>
    /\ hist = [p \in Partitions |-> [calls |-> 0, deleted |-> FALSE, iofail |-> FALSE,
                                   top |-> 0]]
    /\ lastOp = [op |-> "init", status |-> "ok", part |-> <<>>, k |-> 0,
                 deleted |-> FALSE, iofail |-> FALSE, top |-> 0, arg |-> None,
                 content |-> <<>>, version |-> 0, path |-> <<>>, data |-> <<>>,
                 follows |-> FALSE]
    /\ nSaves = 0
    /\ nFaults = 0
    /\ legacy = <<>>
    /\ procs = [p \in Procs |-> IdleProc]

Save ==
    /\ \E n \in ProjectNames, t \in DocTypeArgs :
        LET sp == GetSpecPath(fs, n, t)
        IN  \E c \in Contents, io \in IoOutcomes :
                SaveSpecification(n, c, t, io, sp, Timestamp)
    /\ UNCHANGED <<askVars, cacheVars, sessVars>>

Delete ==
    /\ \E path \in DOMAIN fs : DeleteFile(path)
    /\ UNCHANGED <<askVars, cacheVars, sessVars>>

\* The caller loads a stored file or the path the last save computed, given
\* absolute (as save_specification returns it) or relative to the store root.
Load ==
    /\ \E key \in DOMAIN fs \cup (IF lastOp.op = "save" /\ lastOp.status # "ValueError"
                                  THEN {lastOp.path} ELSE {}) :
        \E spec_path \in {key, <<SPECS_DIR>> \o key} : LoadFile(spec_path)
    /\ UNCHANGED <<askVars, cacheVars, sessVars>>

\* A save of one document body for one of two projects, whose write succeeds
\* or stops part-way, made while the wall clock runs forward or after it was
\* set back.
SaveDraft ==
    /\ \E n \in {<<"A", " ", "c">>, <<"m", " ", "v", "i">>}, t \in DocTypeArgs :
        LET sp == GetSpecPath(fs, n, t)
        IN  \E io \in {"ok", "write_fail"}, back \in {0, ClockSetBack} :
                SaveSpecification(n, <<"x">>, t, io, sp, Timestamp - back)
    /\ UNCHANGED <<askVars, cacheVars, sessVars>>

Damage ==
    /\ \E path \in DOMAIN fs, data \in {CorruptFile, UnreadableFile, NonRecordFile} :
        DamageFile(path, data)
    /\ UNCHANGED <<askVars, cacheVars, sessVars>>

\* The caller lists the store, with or without the two filters.
List ==
    /\ \E project_name \in ProjectNames \cup {<<>>},
          doc_type \in {None, DOCUMENT_TYPE, "engineering_todo"} :
        ListFiles(project_name, doc_type)
    /\ UNCHANGED <<askVars, cacheVars, sessVars>>

\* A process enters save_specification and computes its path.
ProcScan ==
    /\ \E p \in Procs, c \in {<<"x">>, <<"y">>}, t \in DocTypeArgs :
        GetSpecPathStep(p, <<"A", " ", "c">>, c, t)
    /\ UNCHANGED <<askVars, cacheVars, sessVars>>

\* A process writes the file it computed the path of.
ProcWrite ==
    /\ \E p \in Procs : WriteSpecStep(p)
    /\ UNCHANGED <<askVars, cacheVars, sessVars>>

\* The user saves a task list generated from a stored specification.
SaveTodo ==
    /\ \E spec_path \in DOMAIN fs, tasks \in TodoLists, io \in {"ok", "open_fail"} :
        SaveTodoList(spec_path, tasks, io, Timestamp)
    /\ UNCHANGED <<askVars, cacheVars, sessVars>>

LeaveLegacy ==
    /\ \E lp \in LegacyPaths, data \in LegacyContents : LeaveLegacyFile(lp, data)
    /\ UNCHANGED <<askVars, cacheVars, sessVars>>

\* A command constructs its SpecificationManager.
Migrate ==
    /\ \E legacy_files \in ListingOrders(DOMAIN legacy),
          failing \in {s \in SUBSET DOMAIN legacy : Cardinality(s) <= 1},
          io \in {"open_fail", "write_fail"} :
        HandleLegacySpecifications(legacy_files, failing, io)
    /\ UNCHANGED <<askVars, cacheVars, sessVars>>

(***************************************************************************)
(* AIService: texts, the backend, model binding with retry, and ask.       *)
(* A text is a sequence of tokens; " " is white space.                     *)
(***************************************************************************)
\* _get_model(max_retries = 3, retry_delay = 2.0)
MAX_RETRIES == 3

RETRY_DELAY == 2

\* Config.MODEL_NAME as configured, and the other model identifier in use.
DefaultModel == "gemini-2.0-flash"

OtherModel == "other-model"

Models == {DefaultModel, OtherModel}

\* The model_name argument of ask: None when omitted.
ModelArgs == {None, OtherModel}

\* What one call into the llm library does: it returns, raises ConnectionError,
\* or raises another Exception (unknown model, authorization, provider error).
BackendOutcomes == {"ok", "ConnectionError", "Exception"}

\* The backend as one ask call meets it: the outcome of each successive
\* llm.get_model call, the outcome of model.prompt, and which text is produced.
AskEnvs ==
    [get : [1..MAX_RETRIES -> BackendOutcomes],
     prompt : BackendOutcomes,
     variant : 1..7]

\* The text a model produces for a prompt: prose with white space around it;
\* a JSON object followed by further text; a JSON array of question records
\* ("Q1".."Q4": records with section and question; "X": one without) holding
\* two, none or four valid records; lines of free text with questions; or a
\* list of task blocks.
ReplyText(model, variant, prompt) ==
    LET word == IF model = DefaultModel THEN "by-default-model" ELSE "by-other-model"
    IN  CASE variant = 1 -> <<" ", word>> \o prompt \o <<" ">>
          [] variant = 2 -> <<"{", word>> \o prompt \o <<"}", "trailing">>
          [] variant = 3 -> <<"[", "Q1", "X", "Q2", "]">>
          [] variant = 4 -> <<"Scope:", "Why?", "What is the target platform?",
                              "And the budget, roughly?">>
          [] variant = 5 -> <<"1. Build API", "Complexity: High", "Task 2: Write docs">>
          [] variant = 6 -> <<"[", "]">>
          [] OTHER -> <<"[", "Q1", "Q2", "Q3", "Q4", "]">>

\* str.strip()
RECURSIVE LStrip(_)
LStrip(t) == IF Len(t) > 0 /\ t[1] = " " THEN LStrip(Tail(t)) ELSE t

RECURSIVE RStrip(_)
RStrip(t) ==
    IF Len(t) > 0 /\ t[Len(t)] = " " THEN RStrip(SubSeq(t, 1, Len(t) - 1)) ELSE t

Strip(t) == RStrip(LStrip(t))

\* str.rfind("}"), 1-based; 0 when absent.
RECURSIVE RFindBrace(_, _)
RFindBrace(t, i) ==
    IF i = 0 THEN 0 ELSE IF t[i] = "}" THEN i ELSE RFindBrace(t, i - 1)

\* ask's clean-up of a non-streamed response: strip, and cut a response that
\* starts with "{" after its last "}".
CleanResponse(t) ==
    LET response_text == Strip(t)
        last_brace == RFindBrace(response_text, Len(response_text))
    IN  IF Len(response_text) > 0 /\ response_text[1] = "{" /\ last_brace # 0
        THEN SubSeq(response_text, 1, last_brace)
        ELSE response_text

\* response.startswith("ERROR:")
IsErrorResult(t) == Len(t) > 0 /\ t[1] = "ERROR:"

Event(ev, model, out, secs) == [ev |-> ev, model |-> model, out |-> out, secs |-> secs]

\* A retry loop that treats every exception as a connection failure.
RECURSIVE GetModelLoop_RetryAll(_, _, _, _)
GetModelLoop_RetryAll(attempt, model_name, outs, trace) ==
    IF attempt >= MAX_RETRIES THEN [llm |-> None, trace |-> trace]
    ELSE LET out == outs[attempt + 1]
             tried == Append(trace, Event("get_model", model_name, out, 0))
         IN  IF out = "ok" THEN [llm |-> model_name, trace |-> tried]
             ELSE IF attempt < MAX_RETRIES - 1
             THEN GetModelLoop_RetryAll(attempt + 1, model_name, outs,
                      Append(tried, Event("sleep", model_name, "ok",
                                          RETRY_DELAY * (2 ^ attempt))))
             ELSE [llm |-> None, trace |-> tried]

\* The retry loop of _get_model from the given attempt on: the model bound (or
\* None) and what was done.
RECURSIVE GetModelLoop(_, _, _, _)
GetModelLoop(attempt, model_name, outs, trace) ==
    IF attempt >= MAX_RETRIES THEN [llm |-> None, trace |-> trace]
    ELSE LET out == outs[attempt + 1]
             tried == Append(trace, Event("get_model", model_name, out, 0))
         IN  CASE out = "ok" -> [llm |-> model_name, trace |-> tried]
               [] out = "ConnectionError" ->
                    IF attempt < MAX_RETRIES - 1
                    THEN GetModelLoop(attempt + 1, model_name, outs,
                             Append(tried, Event("sleep", model_name, "ok",
                                                 RETRY_DELAY * (2 ^ attempt))))
                    ELSE [llm |-> None, trace |-> tried]
               [] OTHER -> [llm |-> None, trace |-> tried]

\* A _get_model that binds anew on every call.
GetModel_Rebinds(cur_llm, model_name, outs) ==
    GetModelLoop(0, model_name, outs, <<>>)

\* _get_model(): the bound model is reused; otherwise the retry loop binds one.
GetModel(cur_llm, model_name, outs) ==
    IF cur_llm # None THEN [llm |-> cur_llm, trace |-> <<>>]
    ELSE GetModelLoop(0, model_name, outs, <<>>)

\* An except clause that catches connection failures only.
CaughtByAsk_OnlyConnection(exc) == exc = "ConnectionError"

\* The exceptions the "except Exception" clause of ask catches.
CaughtByAsk(exc) == exc \in {"ConnectionError", "Exception"}

\* A finally block that restores nothing.
Finally_NoRestore(override, cur_name, name1, bound) ==
    [llm |-> bound, modelName |-> name1]

\* The finally block of ask: after an override the configured name is restored
\* and the bound model dropped.
Finally(override, cur_name, name1, bound) ==
    [llm |-> IF override THEN None ELSE bound,
     modelName |-> IF override THEN cur_name ELSE name1]

\* ask(prompt, model_name, stream): what it returns or raises, what it did, and
\* the service state it leaves.
Ask(cur_llm, cur_name, prompt, model_name, stream, env) ==
    LET override == model_name # None
        name1 == IF override THEN model_name ELSE cur_name
        llm1 == IF override THEN None ELSE cur_llm
        gm == GetModel(llm1, name1, env.get)
        called == Append(gm.trace, Event("prompt", gm.llm, env.prompt, 0))
        response == ReplyText(gm.llm, env.variant, prompt)
        \* the try block: [exc, ret, trace]
        body ==
            IF gm.llm = None
            THEN [exc |-> None, ret |-> <<"ERROR:", "Could not access the AI model.">>,
                  trace |-> gm.trace]
            ELSE IF env.prompt = "ok"
            THEN [exc |-> None,
                  ret |-> IF stream THEN Strip(response) ELSE CleanResponse(response),
                  trace |-> called]
            ELSE [exc |-> env.prompt, ret |-> <<>>, trace |-> called]
        caught == body.exc # None /\ CaughtByAsk(body.exc)
    IN  [raised |-> body.exc # None /\ ~caught,
         result |-> IF caught
                    THEN <<"ERROR:", "Problem with the AI model response.", body.exc>>
                    ELSE body.ret,
         trace |-> body.trace,
         llm |-> Finally(override, cur_name, name1, gm.llm).llm,
         modelName |-> Finally(override, cur_name, name1, gm.llm).modelName]

(***************************************************************************)
(* What an ask call did.                                                   *)
(***************************************************************************)
\* The calls into the llm library (llm.get_model, model.prompt) of a trace.
BackendCalls(trace) == {i \in 1..Len(trace) : trace[i].ev \in {"get_model", "prompt"}}

PromptCalls(trace) == {i \in 1..Len(trace) : trace[i].ev = "prompt"}

\* The call failed: it bound no model, or its last backend call raised.
AskFailed(trace) ==
    \/ PromptCalls(trace) = {}
    \/ trace[Len(trace)].out # "ok"

\* A backend that raises a transient connection failure on every attempt.
AlwaysTransient(env) ==
    /\ \A i \in 1..MAX_RETRIES : env.get[i] = "ConnectionError"
    /\ env.prompt = "ConnectionError"

\* One ask call.
AskCall(prompt, model_name, stream, env) ==
    LET r == Ask(llm, modelName, prompt, model_name, stream, env)
    IN  /\ nAsks < MaxAsks
        /\ nAsks' = nAsks + 1
        /\ llm' = r.llm
        /\ modelName' = r.modelName
        /\ lastAsk' = [op |-> "ask", model_name |-> model_name, stream |-> stream,
                       allTransient |-> AlwaysTransient(env),
                       wasBound |-> llm # None, raised |-> r.raised,
                       result |-> r.result, trace |-> r.trace]

ServiceInit ==
    /\ modelName = DefaultModel
    /\ llm = None
    /\ lastAsk = [op |-> "init", model_name |-> None, stream |-> FALSE,
                  allTransient |-> FALSE, wasBound |-> FALSE, raised |-> FALSE,
                  result |-> <<>>, trace |-> <<>>]
    /\ nAsks = 0

DoAsk ==
    /\ \E model_name \in ModelArgs, stream \in BOOLEAN, env \in AskEnvs :
           AskCall(<<"prompt">>, model_name, stream, env)
    /\ UNCHANGED <<storeVars, cacheVars, sessVars>>

(***************************************************************************)
(* AIService: the operations wrapped by cached_ai_call.                    *)
(***************************************************************************)
\* The result of a wrapped operation: what it returns, the backend calls it
\* made, and the bound model it leaves.
Outcome(result, trace, bound) == [result |-> result, trace |-> trace, llm |-> bound]

\* The outcome of an operation that returns the response of its last ask,
\* made after the backend calls of trace.
Returned(trace, a) == Outcome(a.result, trace \o a.trace, a.llm)

\* What generate_initial_spec returns when the user declines the retry.
DeclinedText ==
    "Error occurred during generation. Please add specification details manually."

\* generate_initial_spec after its first ask returned a1; retry and
\* retry_model are the user's answers to the two questions asked after a
\* failure.
InitialSpecFrom(a1, name, prompt, retry, retry_model, env2) ==
    IF IsErrorResult(a1.result)
    THEN IF retry
         THEN Returned(a1.trace, Ask(a1.llm, name, prompt, retry_model, FALSE, env2))
         ELSE Outcome(<<DeclinedText>>, a1.trace, a1.llm)
    ELSE Returned(<<>>, a1)

InitialPrompt(description) == <<"initial.txt", "Product description:">> \o description

\* generate_initial_spec(description)
GenerateInitialSpec(cur_llm, name, description, env, retry, retry_model, env2) ==
    InitialSpecFrom(Ask(cur_llm, name, InitialPrompt(description), None, FALSE, env),
                    name, InitialPrompt(description), retry, retry_model, env2)

\* json.loads of a response: a list of items, another JSON value, or the
\* JSONDecodeError of a text that is not one JSON value.
JsonItems == {"Q1", "Q2", "Q3", "Q4", "X"}

JsonLoads(t) ==
    IF /\ Len(t) >= 2
       /\ t[1] = "["
       /\ t[Len(t)] = "]"
       /\ \A i \in 2..(Len(t) - 1) : t[i] \in JsonItems
    THEN [ok |-> TRUE, list |-> TRUE, items |-> SubSeq(t, 2, Len(t) - 1)]
    ELSE IF /\ Len(t) >= 2
            /\ t[1] = "{"
            /\ t[Len(t)] = "}"
            /\ \A i \in 2..(Len(t) - 1) : t[i] \notin {"{", "}", "[", "]"}
    THEN [ok |-> TRUE, list |-> FALSE, items |-> <<>>]
    ELSE [ok |-> FALSE, list |-> FALSE, items |-> <<>>]

\* isinstance(question, dict) and 'section' in question and 'question' in question
IsValidQuestion(item) == item \in {"Q1", "Q2", "Q3", "Q4"}

\* The question record a valid item decodes to.
ItemRecord(item) ==
    [section |-> IF item \in {"Q1", "Q2"} THEN "Users" ELSE "Data", question |-> item]

\* valid_questions: the valid items of a decoded list, in order.
ValidQuestions(items) ==
    LET valid == SelectSeq(items, IsValidQuestion)
    IN  [i \in 1..Len(valid) |-> ItemRecord(valid[i])]

\* Facts about a line of text: '?' in line, len(line), line.endswith(':').
HasQuestionMark(line) ==
    line \in {"Why?", "What is the target platform?", "And the budget, roughly?"}

LineLen(line) ==
    CASE line = "Why?" -> 4
      [] line = "Scope:" -> 6
      [] line = "What is the target platform?" -> 28
      [] line = "And the budget, roughly?" -> 24
      [] OTHER -> 1

EndsWithColon(line) == line = "Scope:"

\* line.rstrip(':').strip() of a section header.
SectionName(line) == IF line = "Scope:" THEN "Scope" ELSE line

\* _extract_questions_from_text: the questions found line by line, cut to one.
RECURSIVE ExtractLoop(_, _, _)
ExtractLoop(lines, current_section, questions) ==
    IF Len(lines) = 0 THEN questions
    ELSE LET line == lines[1]
         IN  IF EndsWithColon(line) /\ LineLen(line) < 50
             THEN ExtractLoop(Tail(lines), SectionName(line), questions)
             ELSE IF HasQuestionMark(line) /\ LineLen(line) > 10
             THEN ExtractLoop(Tail(lines), current_section,
                      Append(questions, [section |-> current_section, question |-> line]))
             ELSE ExtractLoop(Tail(lines), current_section, questions)

\* The line scan returning every question it finds.
ExtractQuestionsFromText_Uncut(text) == ExtractLoop(text, "General", <<>>)

ExtractQuestionsFromText(text) ==
    LET questions == ExtractLoop(text, "General", <<>>)
    IN  SubSeq(questions, 1, IF Len(questions) < 1 THEN Len(questions) ELSE 1)

\* A reading of the response that asks the user again after an ErrorResult.
QuestionsOf_AsksOnError(response) ==
    LET parsed == JsonLoads(response)
    IN  IF IsErrorResult(response) THEN <<ItemRecord("Q1")>>
        ELSE IF ~parsed.ok THEN ExtractQuestionsFromText(response)
        ELSE IF ~parsed.list THEN <<>>
        ELSE ValidQuestions(parsed.items)

\* The questions get_follow_up_questions makes of a response.
QuestionsOf(response) ==
    LET parsed == JsonLoads(response)
    IN  IF IsErrorResult(response) THEN <<>>
        ELSE IF ~parsed.ok THEN ExtractQuestionsFromText(response)
        ELSE IF ~parsed.list THEN <<>>
        ELSE ValidQuestions(parsed.items)

FollowUpFrom(a) == Outcome(QuestionsOf(a.result), a.trace, a.llm)

\* get_follow_up_questions(spec, answered_questions_text)
GetFollowUpQuestions(cur_llm, name, spec, answered_questions_text, env) ==
    FollowUpFrom(Ask(cur_llm, name, <<"refinement.txt">> \o spec \o answered_questions_text,
                     None, FALSE, env))

\* final_refinement_prompt.format(spec = spec), as finalize_spec builds it.
FinalPrompt(spec) == <<"final_refinement.txt">> \o spec

\* A finalize_spec that returns whatever ask returned.
FinalizeFrom_ReturnsError(spec, a) == Outcome(a.result, a.trace, a.llm)

FinalizeFrom(spec, a) ==
    Outcome(IF IsErrorResult(a.result) THEN spec ELSE a.result, a.trace, a.llm)

\* finalize_spec(spec)
FinalizeSpec(cur_llm, name, spec, env) ==
    FinalizeFrom(spec, Ask(cur_llm, name, FinalPrompt(spec), None, FALSE, env))

NameFrom(a) ==
    Outcome(IF IsErrorResult(a.result) THEN <<"untitled_project">> ELSE Strip(a.result),
            a.trace, a.llm)

\* suggest_project_name(spec)
SuggestProjectName(cur_llm, name, spec, env) ==
    NameFrom(Ask(cur_llm, name,
                 <<"Based on this product specification, suggest a name">> \o spec,
                 None, FALSE, env))

\* The sections generate_todo_list asks about, in order.
Sections ==
    <<"Architecture", "Core Features", "Infrastructure", "Testing",
      "Documentation", "Security", "Performance">>

\* A task field that no block has set.
Unset == <<"<unset>">>

NewTask(section) ==
    [section |-> section, title |-> Unset, complexity |-> Unset,
     dependencies |-> Unset, description |-> Unset,
     technical_notes |-> Unset, testing_notes |-> Unset]

\* Facts about a block of the reply: whether it starts a task (a leading digit
\* or "Task" in its first line), the title it gives and the field it names.
StartsTask(block) == block \in {"1. Build API", "Task 2: Write docs"}

BlockTitle(block) ==
    IF block = "1. Build API" THEN <<"Build API">> ELSE <<"Write docs">>

BlockField(block) == IF block = "Complexity: High" THEN "complexity" ELSE "other"

\* _parse_tasks_from_text: the blocks folded into tasks, then the defaults.
RECURSIVE ParseTaskBlocks(_, _, _, _)
ParseTaskBlocks(blocks, section, current_task, tasks) ==
    IF Len(blocks) = 0
    THEN IF current_task.title # Unset THEN Append(tasks, current_task) ELSE tasks
    ELSE LET block == blocks[1]
             rest == Tail(blocks)
         IN  IF Strip(<<block>>) = <<>>
             THEN ParseTaskBlocks(rest, section, current_task, tasks)
             ELSE IF StartsTask(block)
             THEN ParseTaskBlocks(rest, section,
                      [NewTask(section) EXCEPT !.title = BlockTitle(block)],
                      IF current_task.title # Unset THEN Append(tasks, current_task)
                      ELSE tasks)
             ELSE IF current_task.title # Unset
             THEN ParseTaskBlocks(rest, section,
                      IF BlockField(block) = "complexity"
                      THEN [current_task EXCEPT !.complexity = <<"High">>]
                      ELSE [current_task EXCEPT !.description =
                               (IF @ = Unset THEN <<>> ELSE @) \o <<"\n", block>>],
                      tasks)
             ELSE ParseTaskBlocks(rest, section, current_task, tasks)

SetDefault(value, default) == IF value = Unset THEN default ELSE value

ParseTasksFromText(text, section) ==
    LET tasks == ParseTaskBlocks(text, section, NewTask(section), <<>>)
    IN  [i \in 1..Len(tasks) |->
            [section |-> tasks[i].section,
             title |-> SetDefault(tasks[i].title, <<"Untitled Task">>),
             complexity |-> SetDefault(tasks[i].complexity, <<"Medium">>),
             dependencies |-> SetDefault(tasks[i].dependencies, <<>>),
             description |-> SetDefault(tasks[i].description, <<"No description provided.">>),
             technical_notes |-> SetDefault(tasks[i].technical_notes, <<>>),
             testing_notes |-> SetDefault(tasks[i].testing_notes, <<>>)]]

\* Tasks that are all tagged with the first section.
TasksOf_FirstSection(response, section) ==
    IF IsErrorResult(response) THEN <<>> ELSE ParseTasksFromText(response, Sections[1])

\* The tasks generate_todo_list takes from the response for a section.
TasksOf(response, section) ==
    IF IsErrorResult(response) THEN <<>> ELSE ParseTasksFromText(response, section)

\* generate_todo_list(spec): one ask per section from section i on, section k
\* meeting the backend as envs[k]; TodoFrom is the loop after the ask of
\* section i returned a.
RECURSIVE TodoLoop(_, _, _, _, _, _, _), TodoFrom(_, _, _, _, _, _, _)
TodoFrom(i, a, name, spec, envs, tasks, trace) ==
    TodoLoop(i + 1, a.llm, name, spec, envs, tasks \o TasksOf(a.result, Sections[i]),
             trace \o a.trace)

TodoLoop(i, cur_llm, name, spec, envs, tasks, trace) ==
    IF i > Len(Sections) THEN Outcome(<<"tasks", tasks>>, trace, cur_llm)
    ELSE TodoFrom(i, Ask(cur_llm, name, <<"todo-section", Sections[i]>> \o spec, None, FALSE,
                         envs[i]),
                  name, spec, envs, tasks, trace)

\* generate_todo_list(spec) while the backend does not change.
GenerateTodoList(cur_llm, name, spec, env) ==
    TodoLoop(1, cur_llm, name, spec, [k \in 1..Len(Sections) |-> env], <<>>, <<>>)

CachedOps ==
    {"generate_initial_spec", "get_follow_up_questions", "finalize_spec",
     "suggest_project_name", "generate_todo_list"}

\* The operation a wrapper wraps, called with the positional arguments args.
Method(op, args, cur_llm, name, env, retry, retry_model, env2) ==
    CASE op = "generate_initial_spec" ->
            GenerateInitialSpec(cur_llm, name, args[1], env, retry, retry_model, env2)
      [] op = "get_follow_up_questions" ->
            GetFollowUpQuestions(cur_llm, name, args[1], args[2], env)
      [] op = "finalize_spec" -> FinalizeSpec(cur_llm, name, args[1], env)
      [] op = "suggest_project_name" -> SuggestProjectName(cur_llm, name, args[1], env)
      [] OTHER -> GenerateTodoList(cur_llm, name, args[1], env)

(***************************************************************************)
(* AIService: the response cache.                                          *)
(***************************************************************************)
\* Config.CACHE_EXPIRY: one week in seconds.
CACHE_EXPIRY == 604800

\* get_cache_key: the MD5 digest of "method:model:args", kept as the triple it
\* is computed from (the digest is taken to be injective).
GetCacheKey(method_name, model, args) == <<method_name, model, args>>

\* What a lookup gives: hit = FALSE is the None of a miss; store is the cache
\* directory the lookup leaves.
Miss(store) == [hit |-> FALSE, data |-> <<>>, store |-> store]

Hit(store, data) == [hit |-> TRUE, data |-> data, store |-> store]

\* get_cached_response with an entry expiring as soon as its age reaches the
\* expiry.
GetCachedResponse_ExpireAtBoundary(store, cache_key, time) ==
    IF cache_key \in DOMAIN store
    THEN IF time - store[cache_key].mtime >= CACHE_EXPIRY
         THEN Miss(store)
         ELSE IF store[cache_key].ok
         THEN Hit(store, store[cache_key].data)
         ELSE Miss(store)
    ELSE Miss(store)

\* get_cached_response without the expiry test.
GetCachedResponse_NoExpiry(store, cache_key, time) ==
    IF cache_key \in DOMAIN store
    THEN IF store[cache_key].ok
         THEN Hit(store, store[cache_key].data)
         ELSE Miss(store)
    ELSE Miss(store)

\* A lookup that takes an entry it cannot deserialize for a value.
GetCachedResponse_ReadsBadEntry(store, cache_key, time) ==
    IF cache_key \in DOMAIN store
    THEN IF time - store[cache_key].mtime > CACHE_EXPIRY
         THEN Miss(store)
         ELSE Hit(store, store[cache_key].data)
    ELSE Miss(store)

\* get_cached_response
GetCachedResponse(store, cache_key, time) ==
    IF cache_key \in DOMAIN store
    THEN IF time - store[cache_key].mtime > CACHE_EXPIRY
         THEN Miss(store)
         ELSE IF store[cache_key].ok
         THEN Hit(store, store[cache_key].data)
         ELSE Miss(store)
    ELSE Miss(store)

\* A save whose interrupted write leaves a file that can be deserialized.
SaveToCache_PartialIsReadable(store, cache_key, data, time, io) ==
    CASE io = "ok" -> (cache_key :> [data |-> data, mtime |-> time, ok |-> TRUE]) @@ store
      [] io = "write_fail" ->
            (cache_key :> [data |-> <<>>, mtime |-> time, ok |-> TRUE]) @@ store
      [] OTHER -> store

\* save_to_cache: the write succeeds, fails before the file is opened, or
\* fails after the file was truncated; a failure is logged, never raised.
SaveToCache(store, cache_key, data, time, io) ==
    CASE io = "ok" -> (cache_key :> [data |-> data, mtime |-> time, ok |-> TRUE]) @@ store
      [] io = "write_fail" ->
            (cache_key :> [data |-> <<>>, mtime |-> time, ok |-> FALSE]) @@ store
      [] OTHER -> store

\* An entry that exists and is older than the expiry.
Expired(store, cache_key, time) ==
    cache_key \in DOMAIN store /\ time - store[cache_key].mtime > CACHE_EXPIRY

\* What a call reports, for the checks: expired and unreadable tell what the
\* lookup met under the key, failed that every backend call of the call raised.
CallRecord(op, key, hit, expired, trace, result) ==
    [op |-> op, key |-> key, time |-> now, hit |-> hit, expired |-> expired,
     unreadable |-> key \in DOMAIN cache /\ ~cache[key].ok /\ ~Expired(cache, key, now),
     backend |-> Cardinality(BackendCalls(trace)),
     failed |-> BackendCalls(trace) # {}
                /\ \A i \in BackendCalls(trace) : trace[i].out # "ok",
     result |-> result]

\* A wrapper that stores a value only when the backend calls made for it did
\* not all fail.
CachedOutcome_SkipsFallback(cache_key, cached_response, m, io) ==
    IF cached_response.hit
    THEN [hit |-> TRUE, result |-> cached_response.data, trace |-> <<>>, llm |-> llm,
          store |-> cached_response.store]
    ELSE [hit |-> FALSE, result |-> m.result, trace |-> m.trace, llm |-> m.llm,
          store |-> IF \A i \in BackendCalls(m.trace) : m.trace[i].out # "ok"
                    THEN cached_response.store
                    ELSE SaveToCache(cached_response.store, cache_key, m.result, now, io)]

\* What the wrapper of cached_ai_call does around one operation, given what
\* the lookup of cache_key gave (cached_response) and what the operation gives
\* when called (m): the value returned, the backend calls made, the bound
\* model and the cache directory left.
CachedOutcome(cache_key, cached_response, m, io) ==
    IF cached_response.hit
    THEN [hit |-> TRUE, result |-> cached_response.data, trace |-> <<>>, llm |-> llm,
          store |-> cached_response.store]
    ELSE [hit |-> FALSE, result |-> m.result, trace |-> m.trace, llm |-> m.llm,
          store |-> SaveToCache(cached_response.store, cache_key, m.result, now, io)]

\* One cached call with outcome c.
WrapperStep(op, cache_key, c, io) ==
    /\ nCalls < MaxCalls
    /\ io # "ok" => ~c.hit /\ nCacheFails < MaxFaults
    /\ nCalls' = nCalls + 1
    /\ nCacheFails' = IF io = "ok" THEN nCacheFails ELSE nCacheFails + 1
    /\ cache' = c.store
    /\ llm' = c.llm
    /\ lastCall' = CallRecord(op, cache_key, c.hit,
                              ~c.hit /\ Expired(cache, cache_key, now), c.trace, c.result)
    /\ UNCHANGED <<modelName, lastAsk, nAsks, now, nTicks>>

Wrapper(op, cache_key, cached_response, m, io) ==
    WrapperStep(op, cache_key, CachedOutcome(cache_key, cached_response, m, io), io)

CachedCall(op, args, env, retry, retry_model, env2, io) ==
    Wrapper(op, GetCacheKey(op, modelName, args),
            GetCachedResponse(cache, GetCacheKey(op, modelName, args), now),
            Method(op, args, llm, modelName, env, retry, retry_model, env2), io)

\* get_cached_response called on its own.
LookupCall(cache_key) ==
    LET cached_response == GetCachedResponse(cache, cache_key, now)
    IN  /\ lastCall' = CallRecord("lookup", cache_key, cached_response.hit,
                                  Expired(cache, cache_key, now), <<>>,
                                  cached_response.data)
        /\ cache' = cached_response.store
        /\ UNCHANGED <<now, nCalls, nTicks, nCacheFails, askVars>>

CacheInit ==
    /\ cache = <<>>
    /\ now = 0
    /\ lastCall = [op |-> "init", key |-> <<>>, time |-> 0, hit |-> FALSE,
                   expired |-> FALSE, unreadable |-> FALSE, backend |-> 0,
                   failed |-> FALSE, result |-> <<>>]
    /\ nCalls = 0
    /\ nTicks = 0
    /\ nCacheFails = 0

\* The backend as a cached call meets it: up (answering with prose) or down
\* (every call raises ConnectionError).
BackendModes == {"prose", "down"}

EnvOf(mode) ==
    [get |-> [i \in 1..MAX_RETRIES |-> IF mode = "down" THEN "ConnectionError" ELSE "ok"],
     prompt |-> IF mode = "down" THEN "ConnectionError" ELSE "ok",
     variant |-> CASE mode = "array" -> 3
                   [] mode = "lines" -> 4
                   [] mode = "empty" -> 6
                   [] mode = "many" -> 7
                   [] OTHER -> 1]

\* The arguments the operations are called with: texts, as sequences of words.
Texts == {<<"d1">>}

ArgsOf(op) ==
    IF op = "get_follow_up_questions" THEN {<<t, <<>>>> : t \in Texts}
    ELSE {<<t>> : t \in Texts}

CacheIo == {"ok", "open_fail", "write_fail"}

\* A cached call made while the backend is in one of the given modes.
CallWith(modes) ==
    /\ \E op \in CachedOps, mode \in modes, io \in CacheIo :
         \E args \in ArgsOf(op) :
            IF op = "generate_initial_spec" /\ mode = "down"
            THEN \E retry \in BOOLEAN, mode2 \in BackendModes :
                    CachedCall(op, args, EnvOf(mode), retry, OtherModel, EnvOf(mode2), io)
            ELSE CachedCall(op, args, EnvOf(mode), FALSE, OtherModel, EnvOf(mode), io)
    /\ UNCHANGED <<storeVars, sessVars>>

\* A cached call made while the backend is up.
DoCachedCall == CallWith({"prose"})

\* A cached call made while the backend is down.
DoFailingCall == CallWith({"down"})

DoLookup ==
    /\ lastCall.op \in CachedOps
    /\ LookupCall(lastCall.key)
    /\ UNCHANGED <<storeVars, sessVars>>

\* Time passes: the length of the expiry window, or a second more.
Tick ==
    /\ nTicks < MaxTicks
    /\ \E d \in {CACHE_EXPIRY, CACHE_EXPIRY + 1} : now' = now + d
    /\ nTicks' = nTicks + 1
    /\ UNCHANGED <<storeVars, askVars, sessVars, cache, lastCall, nCalls, nCacheFails>>

(***************************************************************************)
(* cli/commands.py: the refinement loop of create_spec and edit_spec.      *)
(***************************************************************************)
\* What the user types at a question: the sentinels, nothing, or an answer.
UserAnswers == {"done", "Skip", "", "a1"}

\* answer.lower()
AnswerLower(answer) == IF answer = "Skip" THEN "skip" ELSE answer

\* Validator.not_empty raises ValidationError.
IsBlank(answer) == answer = ""

\* A serialization that keeps only the answer given last.
AnsweredQuestionsText_LastOnly(answered_questions) ==
    IF Len(answered_questions) = 0 THEN <<>>
    ELSE <<"Q:", answered_questions[Len(answered_questions)].question,
           "A:", answered_questions[Len(answered_questions)].answer>>

\* "\n".join of "Q: {question}\nA: {answer}" over the answered questions.
RECURSIVE AnsweredQuestionsText(_)
AnsweredQuestionsText(answered_questions) ==
    IF Len(answered_questions) = 0 THEN <<>>
    ELSE <<"Q:", answered_questions[1].question, "A:", answered_questions[1].answer>>
         \o AnsweredQuestionsText(Tail(answered_questions))

\* The record of the ask a cached call made (none on a hit).
AskRecord(a, env, c) ==
    IF c.hit THEN lastAsk
    ELSE [op |-> "ask", model_name |-> None, stream |-> FALSE,
          allTransient |-> AlwaysTransient(env), wasBound |-> llm # None,
          raised |-> a.raised, result |-> a.result, trace |-> a.trace]

\* The backend as a session meets it: when asked for questions it is down or
\* replies with an empty array, an array of records or lines of text; when
\* asked to rewrite the draft it is down or replies with prose ("many": an
\* array of four records).
QuestioningModes == {"down", "empty", "array", "many", "lines"}

UpdatingModes == {"down", "prose"}

\* The service state a cached call with outcome c leaves.
ServiceAfter(c, io) ==
    /\ io # "ok" => ~c.hit /\ nCacheFails < MaxFaults
    /\ nCacheFails' = IF io = "ok" THEN nCacheFails ELSE nCacheFails + 1
    /\ cache' = c.store
    /\ llm' = c.llm
    /\ UNCHANGED <<modelName, nAsks, now, nTicks, nCalls, lastCall>>

\* A test of the question list that never ends the loop.
NoQuestions_Never(qs) == FALSE

\* "if not questions: break"
NoQuestions(qs) == qs = <<>>

\* The loop is reached with a draft: spec = ..., answered_questions = [].
EnterLoop(mode, text) ==
    /\ session' = [pc |-> "questioning", mode |-> mode, spec |-> text,
                   questions |-> <<>>, batch |-> <<>>, i |-> 0, answered |-> <<>>]
    /\ seen' = [seen EXCEPT !.roundSpec = text, !.draft = text]

\* edit_spec reaches the loop with the text of the document it loaded.
StartSession(mode, text) ==
    /\ session.pc = "idle"
    /\ EnterLoop(mode, text)

\* initial_spec.startswith("Error"): the comparison is case-sensitive, and of
\* the texts generate_initial_spec returns only the one for a declined retry
\* starts with these letters.
StartsWithError(initial_spec) ==
    Len(initial_spec) > 0 /\ initial_spec[1] = DeclinedText

\* create_spec after generate_initial_spec returned c.result, its first ask
\* being a: the failure is reported and create_spec returns, or the loop is
\* reached with the text as the draft.
AfterInitialSpec(a, env, c, io) ==
    /\ session.pc = "idle"
    /\ ServiceAfter(c, io)
    /\ lastAsk' = AskRecord(a, env, c)
    /\ IF StartsWithError(c.result)
       THEN /\ session' = [session EXCEPT !.pc = "failed", !.spec = c.result]
            /\ seen' = [seen EXCEPT !.draft = c.result]
       ELSE EnterLoop("create", c.result)

CreateWith(a, env, cache_key, m, io) ==
    AfterInitialSpec(a, env,
                     CachedOutcome(cache_key, GetCachedResponse(cache, cache_key, now),
                                   m, io),
                     io)

\* create_spec up to the loop: the description typed by the user, then
\* initial_spec = ai_service.generate_initial_spec(description).
CreateDraft(description, env, retry, retry_model, env2, io) ==
    CreateWith(Ask(llm, modelName, InitialPrompt(description), None, FALSE, env),
               env,
               GetCacheKey("generate_initial_spec", modelName, <<description>>),
               GenerateInitialSpec(llm, modelName, description, env, retry, retry_model,
                                   env2),
               io)

\* The top of the loop after get_follow_up_questions returned c.result, its
\* ask being a.
AfterQuestions(a, env, cache_key, c, io) ==
    /\ ServiceAfter(c, io)
    /\ lastAsk' = AskRecord(a, env, c)
    /\ session' = [session EXCEPT
                      !.pc = IF NoQuestions(c.result) THEN "after_loop" ELSE "asking",
                      !.questions = c.result,
                      !.batch = c.result,
                      !.i = IF NoQuestions(c.result) THEN 0 ELSE 1]
    /\ seen' = [seen EXCEPT
                   !.rounds = IF @ < MaxRounds THEN @ + 1 ELSE @,
                   !.asked = cache_key[3],
                   !.roundSpec = session.spec,
                   !.shown = IF c.result = <<>> THEN 0 ELSE 1,
                   !.doneAt = 0,
                   !.shownAfterDone = 0,
                   !.requestAfterDone = @ \/ seen.doneAt > 0,
                   !.firstEmpty = IF seen.rounds = 0 THEN c.result = <<>> ELSE @,
                   !.failed = ~c.hit /\ IsErrorResult(a.result)]

QuestioningWith(a, env, cache_key, io) ==
    AfterQuestions(a, env, cache_key,
                   CachedOutcome(cache_key, GetCachedResponse(cache, cache_key, now),
                                 FollowUpFrom(a), io),
                   io)

\* questions = ai_service.get_follow_up_questions(spec, answered_questions_text)
QuestioningCall(env, io) ==
    /\ session.pc = "questioning"
    /\ QuestioningWith(
           Ask(llm, modelName,
               <<"refinement.txt">> \o session.spec \o AnsweredQuestionsText(session.answered),
               None, FALSE, env),
           env,
           GetCacheKey("get_follow_up_questions", modelName,
                       <<session.spec, AnsweredQuestionsText(session.answered)>>),
           io)

\* Questioning: the request for follow-up questions at the top of the loop,
\* for as many rounds as the model follows.
Questioning(env, io) ==
    /\ seen.rounds < MaxRounds
    /\ QuestioningCall(env, io)

\* Questioning while the rounds are counted, and in any round once the
\* backend has settled on the empty list.
SettledQuestioning(env, io) ==
    /\ seen.settled \/ seen.rounds < MaxRounds
    /\ QuestioningCall(env, io)

\* From here on the backend answers every request for follow-up questions
\* with an empty list.
Settle ==
    /\ ~seen.settled
    /\ seen' = [seen EXCEPT !.settled = TRUE]
    /\ UNCHANGED session

\* A loop that ends when a batch was gone through with no answer accepted.
MoveOn_NoAnswerEnds(qs, answered, done) ==
    /\ session' = [session EXCEPT
                      !.questions = qs,
                      !.answered = answered,
                      !.i = IF session.i < Len(session.batch) THEN @ + 1 ELSE @,
                      !.pc = IF session.i < Len(session.batch) THEN "asking"
                             ELSE IF NoQuestions(qs) \/ answered = <<>>
                                  THEN "after_loop" ELSE "updating"]
    /\ seen' = [seen EXCEPT
                   !.shown = IF session.i < Len(session.batch) THEN @ + 1 ELSE @,
                   !.doneAt = IF done /\ @ = 0 THEN session.i ELSE @,
                   !.shownAfterDone =
                       IF session.i < Len(session.batch) /\ (done \/ seen.doneAt > 0)
                       THEN @ + 1 ELSE @]

\* The for loop moves on from question i, the variable questions being qs: to
\* the next question of the batch, or past the loop to the test of questions.
\* done tells that the user typed the sentinel at question i.
MoveOn(qs, answered, done) ==
    /\ session' = [session EXCEPT
                      !.questions = qs,
                      !.answered = answered,
                      !.i = IF session.i < Len(session.batch) THEN @ + 1 ELSE @,
                      !.pc = IF session.i < Len(session.batch) THEN "asking"
                             ELSE IF NoQuestions(qs) THEN "after_loop" ELSE "updating"]
    /\ seen' = [seen EXCEPT
                   !.shown = IF session.i < Len(session.batch) THEN @ + 1 ELSE @,
                   !.doneAt = IF done /\ @ = 0 THEN session.i ELSE @,
                   !.shownAfterDone =
                       IF session.i < Len(session.batch) /\ (done \/ seen.doneAt > 0)
                       THEN @ + 1 ELSE @]

\* An inner loop in which done only moves on to the next question.
Answer_DoneKeepsQuestions(answer) ==
    /\ session.pc = "asking"
    /\ CASE AnswerLower(answer) = "done" -> MoveOn(session.questions, session.answered, TRUE)
         [] AnswerLower(answer) = "skip" -> MoveOn(session.questions, session.answered, FALSE)
         [] IsBlank(answer) -> UNCHANGED sessVars
         [] OTHER -> MoveOn(session.questions,
                            Append(session.answered,
                                   [section |-> session.batch[session.i].section,
                                    question |-> session.batch[session.i].question,
                                    answer |-> answer]),
                            FALSE)

\* The user answers the question presented: the body of the inner while loop.
Answer(answer) ==
    /\ session.pc = "asking"
    /\ CASE AnswerLower(answer) = "done" -> MoveOn(<<>>, session.answered, TRUE)
         [] AnswerLower(answer) = "skip" -> MoveOn(session.questions, session.answered, FALSE)
         [] IsBlank(answer) -> UNCHANGED sessVars
         [] OTHER -> MoveOn(session.questions,
                            Append(session.answered,
                                   [section |-> session.batch[session.i].section,
                                    question |-> session.batch[session.i].question,
                                    answer |-> answer]),
                            FALSE)

\* The loop after finalize_spec returned c.result, its ask being a.
AfterUpdate(a, env, cache_key, c, io) ==
    /\ ServiceAfter(c, io)
    /\ lastAsk' = AskRecord(a, env, c)
    /\ session' = [session EXCEPT
                      !.spec = c.result,
                      !.pc = IF session.mode = "edit" THEN "continue" ELSE "questioning"]
    /\ seen' = [seen EXCEPT
                   !.updates = IF @ < MaxRounds THEN @ + 1 ELSE @,
                   !.updated = cache_key[3],
                   !.updateAfterDone = @ \/ seen.doneAt > 0,
                   !.before = session.spec,
                   !.failed = ~c.hit /\ IsErrorResult(a.result)]

UpdatingWith(a, env, cache_key, io) ==
    AfterUpdate(a, env, cache_key,
                CachedOutcome(cache_key, GetCachedResponse(cache, cache_key, now),
                              FinalizeFrom(session.spec, a), io),
                io)

\* Updating: spec = ai_service.finalize_spec(spec)
Updating(env, io) ==
    /\ session.pc = "updating"
    /\ UpdatingWith(
           Ask(llm, modelName, FinalPrompt(session.spec), None, FALSE, env),
           env,
           GetCacheKey("finalize_spec", modelName, <<session.spec>>),
           io)

\* edit_spec: "Would you like to continue refining? (yes/no)"
Continue(yes) ==
    /\ session.pc = "continue"
    /\ session' = [session EXCEPT !.pc = IF yes THEN "questioning" ELSE "after_loop"]
    /\ UNCHANGED seen

SessionInit ==
    /\ session = [pc |-> "idle", mode |-> "create", spec |-> <<>>, questions |-> <<>>,
                  batch |-> <<>>, i |-> 0, answered |-> <<>>]
    /\ seen = [rounds |-> 0, updates |-> 0, shown |-> 0, doneAt |-> 0,
               shownAfterDone |-> 0, requestAfterDone |-> FALSE,
               updateAfterDone |-> FALSE, firstEmpty |-> FALSE, failed |-> FALSE,
               roundSpec |-> <<>>, before |-> <<>>, draft |-> <<>>,
               asked |-> <<>>, updated |-> <<>>, settled |-> FALSE]

DoStartSession ==
    /\ \E text \in Texts : StartSession("edit", text)
    /\ UNCHANGED <<storeVars, askVars, cacheVars>>

DoCreateDraft ==
    /\ \E mode \in BackendModes, retry \in BOOLEAN, mode2 \in BackendModes, text \in Texts :
        CreateDraft(text, EnvOf(mode), retry, OtherModel, EnvOf(mode2), "ok")
    /\ UNCHANGED storeVars

DoQuestioning ==
    /\ \E mode \in QuestioningModes : Questioning(EnvOf(mode), "ok")
    /\ UNCHANGED storeVars

DoAnswer ==
    /\ \E answer \in UserAnswers : Answer(answer)
    /\ UNCHANGED <<storeVars, askVars, cacheVars>>

DoUpdating ==
    /\ \E mode \in UpdatingModes : Updating(EnvOf(mode), "ok")
    /\ UNCHANGED storeVars

DoContinue ==
    /\ \E yes \in BOOLEAN : Continue(yes)
    /\ UNCHANGED <<storeVars, askVars, cacheVars>>

\* The backend asked for questions before it settles (it replies with an
\* array of records) and after.
DoSettledQuestioning ==
    /\ SettledQuestioning(EnvOf(IF seen.settled THEN "empty" ELSE "array"), "ok")
    /\ UNCHANGED storeVars

DoSettle ==
    /\ Settle
    /\ UNCHANGED <<storeVars, askVars, cacheVars>>

\* The user skips the question presented.
DoSkip ==
    /\ Answer("Skip")
    /\ UNCHANGED <<storeVars, askVars, cacheVars>>

Init == StoreInit /\ ServiceInit /\ CacheInit /\ SessionInit

Next == Save \/ Delete

\* The store under saves and external deletions.
Spec == Init /\ [][Next]_vars

NextLoad == (nSaves < MaxLoadSaves /\ Save) \/ Delete \/ Load

\* The store under saves, external deletions and loads.
SpecLoad == Init /\ [][NextLoad]_vars

NextList == (nSaves < MaxLoadSaves /\ SaveDraft) \/ Damage \/ List

\* The store under saves, damage from outside, and listings.
SpecList == Init /\ [][NextList]_vars

NextMigrate == LeaveLegacy \/ Migrate

NextRace == ProcScan \/ ProcWrite

\* The store under two processes saving at the same time.
SpecRace == Init /\ [][NextRace]_vars

\* The store as commands start on what older versions of the program left.
SpecMigrate == Init /\ [][NextMigrate]_vars

\* get_follow_up_questions called as the method itself, on any reply of the
\* backend: lastAsk is its ask, lastCall the call.
QuestionsCall(spec, answered_questions_text, env) ==
    LET prompt == <<"refinement.txt">> \o spec \o answered_questions_text
        a == Ask(llm, modelName, prompt, None, FALSE, env)
    IN  /\ nCalls < MaxCalls
        /\ nCalls' = nCalls + 1
        /\ llm' = a.llm
        /\ lastAsk' = [op |-> "ask", model_name |-> None, stream |-> FALSE,
                       allTransient |-> AlwaysTransient(env),
                       wasBound |-> llm # None, raised |-> a.raised,
                       result |-> a.result, trace |-> a.trace]
        /\ lastCall' = CallRecord("get_follow_up_questions",
                                  GetCacheKey("get_follow_up_questions", modelName,
                                              <<spec, answered_questions_text>>),
                                  FALSE, FALSE, a.trace, FollowUpFrom(a).result)
        /\ UNCHANGED <<modelName, nAsks, cache, now, nTicks, nCacheFails>>

\* The backend as the ask of one section meets it: the model binds, and the
\* prompt is answered with task blocks or raises.
SectionEnv(fails) ==
    [get |-> [i \in 1..MAX_RETRIES |-> "ok"],
     prompt |-> IF fails THEN "ConnectionError" ELSE "ok",
     variant |-> 5]

\* The call generate_todo_list made, its result being m.
TodoDone(spec, m) ==
    /\ nCalls < MaxCalls
    /\ nCalls' = nCalls + 1
    /\ llm' = m.llm
    /\ lastAsk' = [op |-> "ask", model_name |-> None, stream |-> FALSE,
                   allTransient |-> FALSE, wasBound |-> llm # None, raised |-> FALSE,
                   result |-> <<>>, trace |-> m.trace]
    /\ lastCall' = CallRecord("generate_todo_list",
                              GetCacheKey("generate_todo_list", modelName, <<spec>>),
                              FALSE, FALSE, m.trace, m.result)
    /\ UNCHANGED <<modelName, nAsks, cache, now, nTicks, nCacheFails>>

\* generate_todo_list called as the method itself (no cache), the prompts of
\* the sections in failing raising: lastAsk holds the backend calls of all its
\* asks, lastCall the call.
TodoCall(spec, failing) ==
    TodoDone(spec, TodoLoop(1, llm, modelName, spec,
                            [k \in 1..Len(Sections) |-> SectionEnv(k \in failing)],
                            <<>>, <<>>))

DoTodoCall ==
    /\ \E spec \in Texts, failing \in SUBSET (1..Len(Sections)) : TodoCall(spec, failing)
    /\ UNCHANGED <<storeVars, sessVars>>

\* The answered-questions context of a request: nothing answered yet, or one
\* question and its answer.
AnsweredTexts == {<<>>, <<"Q:", "Q1", "A:", "a1">>}

DoQuestionsCall ==
    /\ \E spec \in Texts, answered_questions_text \in AnsweredTexts, env \in AskEnvs :
           QuestionsCall(spec, answered_questions_text, env)
    /\ UNCHANGED <<storeVars, sessVars>>

NextSession == DoStartSession \/ DoCreateDraft \/ DoQuestioning \/ DoAnswer \/ DoUpdating \/ DoContinue

\* One create_spec or edit_spec run in its refinement loop.
SpecSession == Init /\ [][NextSession]_vars

NextLive ==
    \/ DoStartSession
    \/ DoCreateDraft
    \/ DoSettledQuestioning
    \/ DoSettle
    \/ DoSkip
    \/ DoUpdating
    \/ DoContinue

\* A create_spec or edit_spec run whose user skips every question and whose
\* backend settles on the empty list; no step of the loop that can be taken is
\* put off for ever.
SpecLive ==
    /\ Init
    /\ [][NextLive]_vars
    /\ WF_vars(DoSettledQuestioning)
    /\ WF_vars(DoSkip)
    /\ WF_vars(DoUpdating)
    /\ WF_vars(DoContinue)

NextTodoFile == SaveDraft \/ SaveTodo

\* The store under saves of specifications and of task lists generated from them.
SpecTodoFile == Init /\ [][NextTodoFile]_vars

NextTodo == DoTodoCall

\* generate_todo_list under every pattern of failing sections.
SpecTodo == Init /\ [][NextTodo]_vars

NextQuestions == DoQuestionsCall

\* get_follow_up_questions under every reply of the backend.
SpecQuestions == Init /\ [][NextQuestions]_vars

NextCache == DoCachedCall \/ DoLookup \/ Tick

\* The response cache under cached calls, lookups and the passing of time.
SpecCache == Init /\ [][NextCache]_vars

NextOutage == DoFailingCall \/ DoCachedCall \/ Tick

\* The response cache under calls made while the backend is down and calls
\* made while it is up.
SpecOutage == Init /\ [][NextOutage]_vars

NextAsk == DoAsk

\* An AIService under ask calls against every backend behaviour.
SpecAsk == Init /\ [][NextAsk]_vars

(***************************************************************************)
(* The documents of a partition and their versions.                        *)
(***************************************************************************)
DocsIn(store, part) ==
    {p \in DOMAIN store : Partition(p) = part /\ store[p].kind = "json"}

VersionsIn(store, part) == {store[p].version : p \in DocsIn(store, part)}

(***************************************************************************)
(* C1. With no deletion and no failed write in a partition, the k-th       *)
(* save_specification call to the partition succeeds and is assigned       *)
(* version k, whatever saves to other partitions are interleaved.          *)
(***************************************************************************)
C1_KthSaveGetsVersionK ==
    (lastOp.op = "save" /\ ~lastOp.deleted /\ ~lastOp.iofail)
        => (lastOp.status # "ValueError" /\ lastOp.version = lastOp.k)

(***************************************************************************)
(* C2. Round trip: load_specification on the path a successful             *)
(* save_specification(p, content, t) returned yields a record whose        *)
(* specification is content and whose doc_type is t, or the configured     *)
(* default when t was omitted.                                             *)
(***************************************************************************)
C2_RoundTrip ==
    [][(/\ lastOp.op = "save"
        /\ lastOp.status = "ok"
        /\ lastOp'.op = "load"
        /\ lastOp'.path = lastOp.path)
       => (/\ lastOp'.status = "ok"
           /\ lastOp'.data.specification = lastOp.content
           /\ lastOp'.data.doc_type =
                  (IF lastOp.arg = None THEN DOCUMENT_TYPE ELSE lastOp.arg))]_vars

\* A body with a quote and a backslash, saved without a doc_type, was loaded
\* back from the path the save returned.
C2_Witness ==
    /\ lastOp.op = "load"
    /\ lastOp.follows
    /\ lastOp.status = "ok"
    /\ lastOp.data.specification = <<"\"", "\\">>
    /\ lastOp.data.doc_type = DOCUMENT_TYPE

(***************************************************************************)
(* C3. save_specification never mutates a prior version: after a save,     *)
(* successful or failed, every file that existed before it still exists    *)
(* with the same content, and a successful save adds exactly one new file, *)
(* in the target partition.                                                *)
(***************************************************************************)
C3_SaveNeverMutatesPrior ==
    [][lastOp'.op = "save"
       => (/\ \A p \in DOMAIN fs : p \in DOMAIN fs' /\ fs'[p] = fs[p]
           /\ lastOp'.status = "ok"
                  => (/\ DOMAIN fs' \ DOMAIN fs = {lastOp'.path}
                      /\ Partition(lastOp'.path) = lastOp'.part))]_vars

(***************************************************************************)
(* C4. Under saves and external deletions (no failed write in the          *)
(* partition): no two documents of a partition carry the same version, a   *)
(* save never assigns the version of a document that exists, documents are *)
(* never renumbered, and the next save gets max(existing) + 1, so a gap is *)
(* not refilled.                                                           *)
(***************************************************************************)
C4_VersionsNeverCollide ==
    [][/\ \A p, q \in DOMAIN fs' :
            (/\ p # q
             /\ Partition(p) = Partition(q)
             /\ fs'[p].kind = "json"
             /\ fs'[q].kind = "json")
                => fs'[p].version # fs'[q].version
       /\ (lastOp'.op = "save" /\ lastOp'.status = "ok" /\ ~lastOp'.iofail)
            => (/\ lastOp'.version \notin VersionsIn(fs, lastOp'.part)
                /\ lastOp'.version =
                       (IF VersionsIn(fs, lastOp'.part) = {} THEN 1
                        ELSE SetMax(VersionsIn(fs, lastOp'.part)) + 1)
                /\ \A p \in DocsIn(fs, lastOp'.part) :
                       /\ p \in DOMAIN fs'
                       /\ fs'[p].kind = "json"
                       /\ fs'[p].version = fs[p].version)]_vars

(***************************************************************************)
(* C5. Cache idempotence.                                                  *)
(***************************************************************************)
\* A step that is one cached call.
IsCachedCallStep == nCalls' = nCalls + 1

\* A step that is one lookup on its own.
IsLookupStep == lastCall'.op = "lookup" /\ lastCall.op # "lookup"

C6_ExpiredEntryIsMiss ==
    [][/\ (IsLookupStep /\ Expired(cache, lastCall'.key, now))
          => (~lastCall'.hit /\ cache' = cache)
       /\ (IsCachedCallStep /\ Expired(cache, lastCall'.key, now))
          => (/\ ~lastCall'.hit
              /\ lastCall'.backend >= 1
              /\ lastCall'.key \in DOMAIN cache')]_vars

\* A cached call that found an expired entry and went to the backend.
C6_Witness ==
    /\ lastCall.op \in CachedOps
    /\ lastCall.expired
    /\ ~lastCall.hit
    /\ lastCall.backend >= 1

(***************************************************************************)
(* C7. Retry bound: when the backend raises a transient connection failure *)
(* on every attempt, one ask call makes exactly MAX_RETRIES attempts and   *)
(* then returns an ErrorResult.                                            *)
(***************************************************************************)
C7_RetryBound ==
    (lastAsk.op = "ask" /\ lastAsk.allTransient)
        => (/\ Cardinality(BackendCalls(lastAsk.trace)) = MAX_RETRIES
            /\ ~lastAsk.raised
            /\ IsErrorResult(lastAsk.result))

(***************************************************************************)
(* C8. A connection failure raised by the prompt invocation on a bound     *)
(* model is retried up to the maximum, like one raised while binding: with *)
(* a prompt that keeps failing, the prompt is invoked MAX_RETRIES times.   *)
(***************************************************************************)
C8_PromptFailureRetried ==
    (/\ lastAsk.op = "ask"
     /\ \E i \in PromptCalls(lastAsk.trace) : lastAsk.trace[i].out = "ConnectionError")
        => Cardinality(PromptCalls(lastAsk.trace)) = MAX_RETRIES

(***************************************************************************)
(* C9. A non-transient backend failure ends the attempts of an ask call:   *)
(* the failing call into the backend is the last thing the call does (no   *)
(* retry, no backoff sleep after it) and ask returns an ErrorResult; when   *)
(* it is the first failure, the call made a single attempt.                *)
(***************************************************************************)
C9_NonTransientNotRetried ==
    lastAsk.op = "ask"
        => \A i \in 1..Len(lastAsk.trace) :
               lastAsk.trace[i].out = "Exception"
                   => (/\ i = Len(lastAsk.trace)
                       /\ ~lastAsk.raised
                       /\ IsErrorResult(lastAsk.result)
                       /\ (\A j \in 1..(i - 1) : lastAsk.trace[j].out # "ConnectionError")
                              => Cardinality({j \in BackendCalls(lastAsk.trace) :
                                                 lastAsk.trace[j].ev = lastAsk.trace[i].ev}) = 1)

\* Binding the model failed with a non-transient error at the first attempt.
C9_Witness ==
    /\ lastAsk.op = "ask"
    /\ Len(lastAsk.trace) = 1
    /\ lastAsk.trace[1].ev = "get_model"
    /\ lastAsk.trace[1].out = "Exception"
    /\ IsErrorResult(lastAsk.result)

(***************************************************************************)
(* C10. ask never lets a backend fault escape: whatever the backend does   *)
(* (binding or prompt failing or not, streaming or not, with or without a  *)
(* model override), ask returns a text, and the text is an ErrorResult     *)
(* whenever the call failed.                                               *)
(***************************************************************************)
C10_AskAlwaysReturnsText ==
    lastAsk.op = "ask"
        => (/\ ~lastAsk.raised
            /\ AskFailed(lastAsk.trace) => IsErrorResult(lastAsk.result))

\* A streamed call with a model override whose prompt raised a provider error.
C10_Witness ==
    /\ lastAsk.op = "ask"
    /\ lastAsk.stream
    /\ lastAsk.model_name = OtherModel
    /\ PromptCalls(lastAsk.trace) # {}
    /\ lastAsk.trace[Len(lastAsk.trace)].out = "Exception"
    /\ IsErrorResult(lastAsk.result)

(***************************************************************************)
(* C11. The model override is scoped to one call.                          *)
(***************************************************************************)
\* A step that is one ask call.
IsAskStep == nAsks' = nAsks + 1

\* C11: after ask(prompt, modelOverride) returns, whether with a response or
\* with an ErrorResult after a failure inside the call, the configured model
\* identifier equals its value before the call and no model is bound; a call
\* without override that finds no model bound binds the configured identifier.
C11_OverrideScopedToCall ==
    [][IsAskStep =>
        /\ lastAsk'.model_name # None
           => (modelName' = modelName /\ llm' = None /\ ~lastAsk'.raised)
        /\ (lastAsk'.model_name # None /\ Len(lastAsk'.trace) > 0)
           => lastAsk'.trace[1] = Event("get_model", lastAsk'.model_name,
                                        lastAsk'.trace[1].out, 0)
        /\ (lastAsk'.model_name = None /\ llm = None /\ Len(lastAsk'.trace) > 0)
           => (/\ lastAsk'.trace[1].ev = "get_model"
               /\ lastAsk'.trace[1].model = modelName
               /\ modelName' = modelName)]_vars

\* An override call whose prompt raised inside the call, after an earlier call.
C11_Witness ==
    /\ lastAsk.op = "ask"
    /\ lastAsk.model_name = OtherModel
    /\ nAsks = 2
    /\ PromptCalls(lastAsk.trace) # {}
    /\ lastAsk.trace[Len(lastAsk.trace)].model = OtherModel
    /\ lastAsk.trace[Len(lastAsk.trace)].out = "Exception"
    /\ IsErrorResult(lastAsk.result)
    /\ modelName = DefaultModel
    /\ llm = None

(***************************************************************************)
(* C15. Malformed structured output.                                       *)
(***************************************************************************)
\* A step that is one get_follow_up_questions call.
IsQuestionsStep == nCalls' = nCalls + 1 /\ lastCall'.op = "get_follow_up_questions"

\* The reply of the model is text that is not one JSON value.
NotJson(response) == ~IsErrorResult(response) /\ ~JsonLoads(response).ok

\* C15: when the reply to a follow-up-question request is not parseable JSON,
\* get_follow_up_questions returns at most one question, and that question is
\* a line of the reply that holds a question mark.
C15_MalformedReplyGivesAtMostOne ==
    [][(IsQuestionsStep /\ NotJson(lastAsk'.result))
       => (/\ Len(lastCall'.result) <= 1
           /\ \A i \in 1..Len(lastCall'.result) :
                 \E k \in 1..Len(lastAsk'.result) :
                    /\ lastCall'.result[i].question = lastAsk'.result[k]
                    /\ HasQuestionMark(lastAsk'.result[k]))]_vars

\* A reply of text lines holding two questions, of which one was returned.
C15_Witness ==
    /\ lastCall.op = "get_follow_up_questions"
    /\ NotJson(lastAsk.result)
    /\ Cardinality({k \in 1..Len(lastAsk.result) :
                       HasQuestionMark(lastAsk.result[k]) /\ LineLen(lastAsk.result[k]) > 10}) = 2
    /\ Len(lastCall.result) = 1
    /\ lastCall.result[1] = [section |-> "Scope", question |-> "What is the target platform?"]

(***************************************************************************)
(* C16. The cap of three questions per call.                               *)
(***************************************************************************)
\* C16: get_follow_up_questions returns at most 3 questions per call, for
\* every reply of the model.
C16_AtMostThreeQuestions ==
    lastCall.op = "get_follow_up_questions" => Len(lastCall.result) <= 3

(***************************************************************************)
(* C12. Refinement termination on an empty first batch.                    *)
(***************************************************************************)
\* C12: when the first follow-up-question request of a session returns an
\* empty list, the loop is over after exactly one Questioning round, with no
\* question presented, no Updating call and the draft unchanged.
C12_EmptyFirstBatchEndsLoop ==
    (seen.rounds >= 1 /\ seen.firstEmpty)
    => (/\ session.pc = "after_loop"
        /\ seen.rounds = 1
        /\ seen.shown = 0
        /\ seen.updates = 0
        /\ session.answered = <<>>
        /\ session.spec = seen.roundSpec
        /\ session.spec = seen.draft)

\* A session whose first request was answered with an empty JSON array.
C12_Witness ==
    /\ seen.rounds = 1
    /\ seen.firstEmpty
    /\ lastAsk.result = <<"[", "]">>
    /\ session.pc = "after_loop"

(***************************************************************************)
(* C13. done ends the session without Updating.                            *)
(***************************************************************************)
\* C13: once the user has answered done to a question, no Updating call and
\* no further Questioning call is made in that session, and the loop ends with
\* the draft as it was at the start of the round.
C13_DoneEndsWithoutUpdating ==
    /\ ~seen.updateAfterDone
    /\ ~seen.requestAfterDone
    /\ seen.doneAt > 0
       => (/\ session.pc \in {"asking", "after_loop"}
           /\ session.questions = <<>>
           /\ session.spec = seen.roundSpec)

\* done typed at the first of several questions in the second round, after an
\* Updating that changed the draft; the loop is over.
C13_Witness ==
    /\ seen.doneAt = 1
    /\ Len(session.batch) > 1
    /\ seen.rounds = 2
    /\ seen.updates = 1
    /\ session.spec # seen.draft
    /\ session.pc = "after_loop"

(***************************************************************************)
(* C14. done aborts the rest of the batch.                                 *)
(***************************************************************************)
\* C14: after done was answered to question i of a batch, none of the
\* questions i+1..n of that batch is presented to the user.
C14_NoQuestionAfterDone == seen.shownAfterDone = 0

(***************************************************************************)
(* C17, C18. Listing tolerance.                                            *)
(***************************************************************************)
\* The valid documents of the store that a listing with these filters is about.
ValidInScope(project_name, doc_type) ==
    {p \in DOMAIN fs :
        /\ fs[p].kind = "json"
        /\ project_name # <<>> => p[1] = Slug(project_name)
        /\ doc_type # None => p[2] = doc_type}

\* C17: in a store whose files are valid or corrupt (not parseable),
\* list_specifications does not raise, omits the corrupt files and returns
\* every valid document.
C17_ListingSkipsCorrupt ==
    (/\ lastOp.op = "list"
     /\ \A p \in DOMAIN fs : fs[p].kind \in {"json", "corrupt"})
    => (/\ lastOp.status = "ok"
        /\ Listed(lastOp.data) = ValidInScope(lastOp.arg.project_name, lastOp.arg.doc_type)
        /\ \A p \in DOMAIN fs : fs[p] = CorruptFile => p \notin Listed(lastOp.data))

\* An unfiltered listing of a partition that holds a valid and a corrupt file.
C17_Witness ==
    /\ lastOp.op = "list"
    /\ lastOp.arg.project_name = <<>>
    /\ lastOp.arg.doc_type = None
    /\ lastOp.status = "ok"
    /\ \E p, q \in DOMAIN fs : /\ Partition(p) = Partition(q)
                               /\ fs[p] = CorruptFile
                               /\ q \in Listed(lastOp.data)
                               /\ p \in lastOp.data.warned

\* C18: list_specifications skips a file that cannot be read or whose JSON is
\* not a record instead of aborting: the listing still returns every valid
\* document of the store.
C18_ListingSkipsUnreadable ==
    lastOp.op = "list"
    => (/\ lastOp.status = "ok"
        /\ ValidInScope(lastOp.arg.project_name, lastOp.arg.doc_type)
               \subseteq Listed(lastOp.data))

(***************************************************************************)
(* C19. load_specification failure outcomes.                               *)
(***************************************************************************)
\* A step that is one load_specification call.
IsLoadStep == lastOp'.op = "load" /\ lastOp.op # "load"

\* C19: a load of a path that does not exist yields None, a load of a file
\* with corrupt JSON raises IOError, and both leave every file of the store
\* as it was.
C19_LoadFailuresDistinctAndHarmless ==
    [][IsLoadStep
       => (/\ fs' = fs
           /\ lastOp'.path \notin DOMAIN fs => lastOp'.status = "None"
           /\ (lastOp'.path \in DOMAIN fs /\ fs[lastOp'.path] = CorruptFile)
                  => (lastOp'.status = "IOError" /\ fs'[lastOp'.path] = CorruptFile)
           /\ lastOp'.status = "None" => lastOp'.path \notin DOMAIN fs)]_vars

\* A load of the corrupt file left by a save whose write failed, beside a
\* valid file of the same partition.
C19_Witness ==
    /\ lastOp.op = "load"
    /\ lastOp.status = "IOError"
    /\ lastOp.path \in DOMAIN fs
    /\ fs[lastOp.path] = CorruptFile
    /\ \E q \in DOMAIN fs : Partition(q) = lastOp.part /\ fs[q].kind = "json"

(***************************************************************************)
(* C20. finalize_spec degrades gracefully.                                 *)
(***************************************************************************)
\* A step that is one Updating of the loop.
IsUpdatingStep == seen'.updates = seen.updates + 1

\* C20: whenever the ask under finalize_spec yields an ErrorResult, the draft
\* held by the loop after the Updating step equals the draft before it.
C20_FailedUpdateKeepsDraft ==
    [][(IsUpdatingStep /\ seen'.failed)
       => (/\ session'.spec = session.spec
           /\ IsErrorResult(lastAsk'.result))]_vars

\* An Updating whose ask failed, in a session that had accepted an answer.
C20_Witness ==
    /\ seen.updates = 1
    /\ seen.rounds = 1
    /\ seen.failed
    /\ IsErrorResult(lastAsk.result)
    /\ Len(session.answered) > 0
    /\ session.spec = seen.before
    /\ session.spec = seen.draft

(***************************************************************************)
(* C21. A failed initial draft never becomes a document.                   *)
(***************************************************************************)
\* C21: when generate_initial_spec ends in an ErrorResult (the first attempt
\* failed and the retry was declined or failed too), create_spec ends without
\* entering Questioning; an error text is never the draft of the loop.
C21_ErrorTextNeverTheDraft ==
    session.pc \notin {"idle", "failed"}
    => (/\ ~IsErrorResult(session.spec)
        /\ ~IsErrorResult(seen.draft))

(***************************************************************************)
(* C22. No accepted answer is lost.                                        *)
(***************************************************************************)
\* Every answer of the list occurs in the text.
AnswersIn(text, answered) ==
    \A i \in DOMAIN answered : \E j \in DOMAIN text : text[j] = answered[i].answer

\* C22: every accepted answer is part of the input of the next Updating model
\* call, or, when the session ends by done, of the draft the loop ends with.
C22_NoAcceptedAnswerLost ==
    [][/\ IsUpdatingStep
          => AnswersIn(FinalPrompt(seen'.updated[1]), session.answered)
       /\ (session.pc # "after_loop" /\ session'.pc = "after_loop" /\ seen'.doneAt > 0)
          => AnswersIn(session'.spec, session'.answered)]_vars

(***************************************************************************)
(* C30. The answered-questions context of a Questioning round.             *)
(***************************************************************************)
\* A step that is one Questioning of the loop.
IsQuestioningStep == seen'.rounds = seen.rounds + 1

\* C30: the context passed to get_follow_up_questions holds the accepted
\* answers of all earlier rounds, in the order given, and nothing else; the
\* answered list only grows, and only by an answer that is neither a sentinel
\* nor blank, given to the question presented.
C30_ContextIsAllAcceptedAnswers ==
    [][/\ IsQuestioningStep
          => (/\ Len(seen'.asked[2]) = 4 * Len(session.answered)
              /\ \A i \in DOMAIN session.answered :
                    /\ seen'.asked[2][4 * i - 3] = "Q:"
                    /\ seen'.asked[2][4 * i - 2] = session.answered[i].question
                    /\ seen'.asked[2][4 * i - 1] = "A:"
                    /\ seen'.asked[2][4 * i] = session.answered[i].answer)
       /\ session.pc # "idle"
          => (/\ Len(session'.answered) >= Len(session.answered)
              /\ SubSeq(session'.answered, 1, Len(session.answered)) = session.answered
              /\ Len(session'.answered) \in {Len(session.answered),
                                             Len(session.answered) + 1})
       /\ (session.pc # "idle" /\ Len(session'.answered) > Len(session.answered))
          => (/\ session.pc = "asking"
              /\ session'.answered[Len(session'.answered)].answer
                     \notin {"done", "Skip", "skip", ""}
              /\ session'.answered[Len(session'.answered)].question
                     = session.batch[session.i].question)]_vars

\* A second Questioning round whose context holds two answers accepted in the
\* first round, the draft having been rewritten in between.
C30_Witness ==
    /\ seen.rounds = 2
    /\ Len(session.answered) >= 2
    /\ Len(seen.asked[2]) = 4 * Len(session.answered)
    /\ seen.asked[1] # seen.draft
    /\ session.pc \in {"asking", "after_loop"}

(***************************************************************************)
(* C23. The response cache is keyed per model.                             *)
(***************************************************************************)
\* C23: a draft stored under the key of (generate_initial_spec, model M,
\* arguments) was produced by a backend call bound to model M: it is not the
\* text of a reply of another model.
C23_CachedDraftIsOfKeyModel ==
    \A k \in DOMAIN cache :
        (cache[k].ok /\ k[1] = "generate_initial_spec")
        => \A j \in DOMAIN cache[k].data :
              cache[k].data[j] # (IF k[2] = DefaultModel THEN "by-other-model"
                                  ELSE "by-default-model")

(***************************************************************************)
(* C26, C27. Cache failures are never raised.                              *)
(***************************************************************************)
\* C26: when the entry under the key exists, is within the expiry window and
\* cannot be deserialized, a lookup is a miss; the cached operation then
\* invokes the backend, returns its result and, its write succeeding,
\* overwrites the bad entry with that result.
C26_UnreadableEntryIsMiss ==
    [][/\ (IsLookupStep /\ lastCall'.unreadable) => ~lastCall'.hit
       /\ (IsCachedCallStep /\ lastCall'.unreadable)
          => (/\ ~lastCall'.hit
              /\ lastCall'.backend >= 1
              /\ nCacheFails' = nCacheFails
                 => (/\ cache'[lastCall'.key].ok
                     /\ cache'[lastCall'.key].data = lastCall'.result
                     /\ cache'[lastCall'.key].mtime = now))]_vars

\* A cached call that met the truncated entry of an earlier failed write and
\* replaced it with the text it got from the backend.
C26_Witness ==
    /\ lastCall.op \in CachedOps
    /\ lastCall.unreadable
    /\ ~lastCall.hit
    /\ lastCall.backend >= 1
    /\ cache[lastCall.key].ok
    /\ cache[lastCall.key].data = lastCall.result

\* C27: when save_to_cache fails, the cached operation still returns the value
\* produced by the backend call and a lookup of the key is a miss; a call that
\* finds no readable entry under its key invokes the backend.
C27_FailedWriteIsNotRaised ==
    [][/\ (IsCachedCallStep /\ nCacheFails' = nCacheFails + 1)
          => (/\ ~lastCall'.hit
              /\ lastCall'.backend >= 1
              /\ lastCall'.op \in {"generate_initial_spec", "finalize_spec"}
                 => \E j \in DOMAIN lastCall'.result :
                       lastCall'.result[j] = "by-default-model"
              /\ ~GetCachedResponse(cache', lastCall'.key, now').hit)
       /\ (IsCachedCallStep /\ ~GetCachedResponse(cache, lastCall'.key, now).hit)
          => (~lastCall'.hit /\ lastCall'.backend >= 1)]_vars

\* The second of two calls, made after the write of a first call failed
\* part-way: it is a miss and invokes the backend again.
C27_Witness ==
    /\ nCalls = 2
    /\ nCacheFails = 1
    /\ lastCall.op \in CachedOps
    /\ lastCall.unreadable
    /\ ~lastCall.hit
    /\ lastCall.backend >= 1
    /\ lastCall.time = 0

(***************************************************************************)
(* C28. generate_todo_list: one model call per section, failures skipped.  *)
(***************************************************************************)
\* The prompt events of a trace, in order.
PromptEvents(trace) == SelectSeq(trace, LAMBDA e : e.ev = "prompt")

\* The sections of the tasks of a list, in order.
TaskSections(tasks) == [i \in DOMAIN tasks |-> tasks[i].section]

VersionsAscending(entries) ==
    \A i, j \in DOMAIN entries : i < j => entries[i].version < entries[j].version

\* C29: list_specifications returns the documents of each (project, docType)
\* partition in ascending order of their stored version.
C29_ListedByVersion ==
    (lastOp.op = "list" /\ lastOp.status = "ok")
    => IF lastOp.data.flat THEN VersionsAscending(lastOp.data.list)
       ELSE \A d \in DOMAIN lastOp.data.result :
               \A t \in DOMAIN lastOp.data.result[d] :
                  VersionsAscending(lastOp.data.result[d][t])

\* C24: a migration run does not write a destination that already exists,
\* and a run that follows another run writes no file at all.
C24_ExistingDestinationSkipped ==
    lastOp.op = "migrate"
    => /\ lastOp.data.rewrites = 0
       /\ lastOp.version >= 2 => lastOp.k = 0

RacedSaves(p, q) ==
    /\ procs[p].pc = "done"
    /\ procs[q].pc = "done"
    /\ procs[p].project_name = procs[q].project_name
    /\ procs[p].doc_type = procs[q].doc_type
    /\ procs[p].listing = procs[q].listing
    /\ procs[p].wrote < procs[q].wrote

\* C32: two processes that computed the next version from the same existing
\* versions of a partition were given the same version and path, and the
\* write made later replaced the earlier one: the partition gained one
\* document, holding the later text.
C32_SameListingSameVersion ==
    \A p, q \in Procs :
        RacedSaves(p, q)
        => (/\ procs[p].sp = procs[q].sp
            /\ fs[procs[q].sp.path].specification = JsonDumpStr(procs[q].specification)
            /\ ListDir(fs, Slug(procs[q].project_name), procs[q].doc_type)
                   = procs[q].listing \cup {procs[q].sp.path[3]})

\* Two saves of different texts that both returned, the second to a partition
\* that already held a document, and the text saved first is in no file.
C32_Witness ==
    \E p, q \in Procs :
        /\ RacedSaves(p, q)
        /\ procs[p].listing # {}
        /\ procs[p].specification # procs[q].specification
        /\ \A f \in DOMAIN fs :
              fs[f].specification # JsonDumpStr(procs[p].specification)

(***************************************************************************)
(* C33. The create_spec loop has no round cap.                             *)
(***************************************************************************)
\* C33: in create_spec a Questioning that returned questions presents them, a
\* batch skipped to its end without done leads to Updating, and Updating
\* re-enters Questioning, also when it left the draft as it was: nothing in
\* the loop counts rounds.
C33_LoopReentersQuestioning ==
    [][/\ (IsQuestioningStep /\ session'.questions # <<>>) => session'.pc = "asking"
       /\ (/\ session.pc = "asking"
           /\ session.i = Len(session.batch)
           /\ seen.doneAt = 0
           /\ seen'.doneAt = 0
           /\ session' # session)
          => session'.pc = "updating"
       /\ (IsUpdatingStep /\ session.mode = "create")
          => session'.pc = "questioning"]_vars

\* create_spec back at the top of the loop after as many rounds as the model
\* follows, every question skipped and every Updating leaving the draft as it
\* was.
C33_Witness ==
    /\ session.mode = "create"
    /\ session.pc = "questioning"
    /\ seen.rounds = MaxRounds
    /\ seen.updates = MaxRounds
    /\ session.answered = <<>>
    /\ session.spec = seen.draft
    /\ session.spec = seen.before
    /\ seen.doneAt = 0

(***************************************************************************)
(* C34. The bound model is the one of the configured identifier.           *)
(***************************************************************************)
\* The get_model events of a trace.
GetModelCalls(trace) == {i \in 1..Len(trace) : trace[i].ev = "get_model"}

\* C34: a bound model that is held was created for the configured model
\* identifier; a call without override binds one only when none is held and
\* otherwise prompts the one held without a get_model call; a call with an
\* override binds anew for the override and leaves no model bound.
C34_BoundModelIsConfigured ==
    /\ [](llm # None => llm = modelName)
    /\ [][IsAskStep =>
            /\ (lastAsk'.model_name = None /\ llm # None)
               => (/\ GetModelCalls(lastAsk'.trace) = {}
                   /\ llm' = llm
                   /\ \A i \in PromptCalls(lastAsk'.trace) :
                         lastAsk'.trace[i].model = llm)
            /\ (lastAsk'.model_name = None /\ llm = None)
               => (/\ GetModelCalls(lastAsk'.trace) # {}
                   /\ llm' # None
                      => lastAsk'.trace[Len(lastAsk'.trace)
                                        - Cardinality(PromptCalls(lastAsk'.trace))]
                            = Event("get_model", modelName, "ok", 0))
            /\ lastAsk'.model_name # None
               => (/\ llm' = None
                   /\ GetModelCalls(lastAsk'.trace) # {}
                   /\ \A i \in BackendCalls(lastAsk'.trace) :
                         lastAsk'.trace[i].model = lastAsk'.model_name)]_vars

\* A second call without override that prompted the model the first call had
\* bound, with no get_model call.
C34_Witness ==
    /\ nAsks = 2
    /\ lastAsk.model_name = None
    /\ lastAsk.wasBound
    /\ llm = modelName
    /\ GetModelCalls(lastAsk.trace) = {}
    /\ Cardinality(PromptCalls(lastAsk.trace)) = 1

(***************************************************************************)
(* C35. Version allocation for a slug that contains "_v".                  *)
(***************************************************************************)
\* C35: in a partition whose project slug contains "_v", with no deletion and
\* no failed write, the second and every later save gets through
\* _get_spec_path and is assigned the version that is its number: 2, 3, ...
C35_SlugWithUnderscoreV ==
    (/\ lastOp.op = "save"
     /\ Contains(lastOp.part[1], <<"_", "v">>)
     /\ lastOp.k >= 2
     /\ ~lastOp.deleted
     /\ ~lastOp.iofail)
    => (lastOp.status # "ValueError" /\ lastOp.version = lastOp.k)

(***************************************************************************)
(* C36. Versions over the whole history of a partition.                    *)
(***************************************************************************)
\* C36: under saves and deletions, a save to a partition (of a slug without
\* "_v", with no failed write) is assigned a version greater than every
\* version an earlier save to the partition was assigned, also when the
\* document that carried it has been deleted.
C36_VersionNeverAssignedTwice ==
    (/\ lastOp.op = "save"
     /\ lastOp.status = "ok"
     /\ ~Contains(lastOp.part[1], <<"_", "v">>)
     /\ ~lastOp.iofail)
    => lastOp.version > lastOp.top

(***************************************************************************)
(* C37. The wrapper stores the fallback of a failed call.                  *)
(***************************************************************************)
\* What an operation returns when its ask yields an ErrorResult.
Fallback(op, args) ==
    CASE op = "get_follow_up_questions" -> <<>>
      [] op = "finalize_spec" -> args[1]
      [] op = "suggest_project_name" -> <<"untitled_project">>
      [] OTHER -> <<"tasks", <<>>>>

FallbackOps ==
    {"get_follow_up_questions", "finalize_spec", "suggest_project_name",
     "generate_todo_list"}

\* C37: a call whose backend calls all failed returns the fallback of its
\* operation and the wrapper stores it like any value; a call with the same
\* key made while that entry is readable and within the expiry returns the
\* fallback with no backend invocation.
C37_FallbackIsCached ==
    [][(IsCachedCallStep /\ lastCall'.op \in FallbackOps) =>
        LET key == lastCall'.key
            fallback == Fallback(lastCall'.op, key[3])
        IN  /\ (~lastCall'.hit /\ lastCall'.failed)
               => (/\ lastCall'.result = fallback
                   /\ nCacheFails' = nCacheFails
                      => (/\ key \in DOMAIN cache'
                          /\ cache'[key] = [data |-> fallback, mtime |-> now,
                                            ok |-> TRUE]))
            /\ (/\ key \in DOMAIN cache
                /\ cache[key] = [data |-> fallback, mtime |-> cache[key].mtime,
                                 ok |-> TRUE]
                /\ now - cache[key].mtime <= CACHE_EXPIRY)
               => (/\ lastCall'.hit
                   /\ lastCall'.result = fallback
                   /\ lastCall'.backend = 0
                   /\ cache' = cache)]_vars

\* The second of two finalize_spec calls with the same draft: it is answered
\* with the draft itself, stored by the first call when the backend was down,
\* at the end of the expiry window.
C37_Witness ==
    /\ nCalls = 2
    /\ lastCall.op = "finalize_spec"
    /\ lastCall.hit
    /\ lastCall.backend = 0
    /\ lastCall.result = lastCall.key[3][1]
    /\ lastCall.time = CACHE_EXPIRY
    /\ cache[lastCall.key].mtime = 0

C39_TodoFilesAreNotVersioned ==
    [][lastOp'.op = "todo" /\ lastOp'.status = "ok"
           => LET src == lastOp'.arg
                  path == lastOp'.path
              IN  /\ path = <<Slug(JsonLoadStr(fs[src].product_name)), "engineering_todo",
                              SubSeq(src[3], 1, Len(src[3]) - 5)
                                  \o <<"_", "t", "o", "d", "o", ".", "j", "s", "o", "n">>>>
                  /\ DOMAIN fs' = DOMAIN fs \cup {path}
                  /\ fs'[path].kind = "todo"
                  /\ fs'[path].tasks = lastOp'.content
                  /\ \A q \in DOMAIN fs \ {path} : fs'[q] = fs[q]
                  /\ \A n \in ProjectNames, t \in DocTypeArgs :
                        GetSpecPath(fs', n, t) = GetSpecPath(fs, n, t)]_vars

\* A task list generated a second time from the first version of a document
\* kept in the engineering_todo partition: it took the place of the first
\* task list, with other tasks, and the partition's next version is still 2.
C39_Witness ==
    /\ lastOp.op = "todo"
    /\ lastOp.status = "ok"
    /\ lastOp.arg[2] = "engineering_todo"
    /\ lastOp.arg \in DOMAIN fs
    /\ nFaults = 0
    /\ Cardinality(DOMAIN fs) = 2
    /\ fs[lastOp.path].tasks = <<"t1", "t2">>
    /\ fs[lastOp.path].timestamp > fs[lastOp.arg].timestamp + 1
    /\ \E n \in ProjectNames :
        /\ Slug(n) = lastOp.path[1]
        /\ GetSpecPath(fs, n, "engineering_todo").version = 2

====
